---------------------------- MODULE Spec2Model ----------------------------
(***************************************************************************)
(* wireguard-gui: the tunnel activation state machine (src/tunnel.rs) and  *)
(* the bounded process runner (src/utils.rs), for one tunnel row of the    *)
(* application; the configuration codec, the routing-script validators     *)
(* (src/config.rs), the initial loading (src/main.rs, src/utils.rs), the   *)
(* scan of the routing scripts, the write of a config file                 *)
(* (src/config.rs), the tunnel list and the start of the application       *)
(* (src/main.rs) and the keys of the editor (src/overview.rs).             *)
(*                                                                         *)
(* Strings are sequences of one-character strings, Option<T> is a sequence *)
(* of length 0 (None) or 1 (Some).                                         *)
(***************************************************************************)
EXTENDS Integers, Sequences, FiniteSets, Bags, TLC

VARIABLES
    data,      \* TunnelData: active, saved, config
    switch,    \* the gtk::Switch of the row: its `state` property
    inputQ,    \* TunnelMsg values sent to the component and not handled yet
    cmds,      \* the oneshot commands (execute_toggle) in flight, by slot
    emitted,   \* TunnelOutput values emitted by the step just taken
    codec,     \* a call of parse_config / write_config: its input and results
    routing,   \* a config, the scanned scripts and the result of validation
    loading,   \* perform_initial_loading: the directory, its locals, its result
    scan,      \* extract_scripts_metadata: the scripts directory and its result
    save,      \* write_config_to_path: the file at the path and the step reached
    app,       \* App: the tunnels of the list and the messages not handled yet
    startup,   \* App::init: the loader, the idle callback and the error buffer
    editor     \* OverviewModel: the interface shown and the key derivations running

vars == <<data, switch, inputQ, cmds, emitted>>

\* The variables of the calls outside the tunnel row.
calls == <<codec, routing, loading, scan, save, app, startup, editor>>
NoCall == [pc |-> "none"]

\* ------------------------------------------------------------------ bounds
MaxInFlight == 2      \* commands in flight at once
MaxQueue == 1         \* unhandled input messages
MaxLines == 3         \* lines of a text given to parse_config
MaxPeers == 2         \* peers of a config given to write_config
MaxScripts == 2       \* scripts in the scanned list
MaxTunnels == 2       \* tunnels of the list
MaxJobs == 2          \* oneshot commands of the application running
MaxDerivations == 2   \* key derivations of the editor running
MaxErrors == 3        \* errors of the initial loading

\* ----------------------------------------------------------------- Option
None == <<>>
Some(v) == <<v>>
is_none(o) == o = <<>>
is_some(o) == o # <<>>

\* ---------------------------------------------------------------- strings
Empty == <<>>
Newline == <<"\n">>
is_whitespace(ch) == ch \in {" ", "\n"}

RECURSIVE trim_start(_)
trim_start(s) ==
    IF s # <<>> /\ is_whitespace(Head(s)) THEN trim_start(Tail(s)) ELSE s

RECURSIVE trim_end(_)
trim_end(s) ==
    IF s # <<>> /\ is_whitespace(s[Len(s)])
    THEN trim_end(SubSeq(s, 1, Len(s) - 1))
    ELSE s

trim(s) == trim_end(trim_start(s))

\* ------------------------------------------------------- the configuration
\* The fields of WireguardConfig that activation reads.
Key == <<"K">>
Blank == <<" ">>
GoodEndpoint == <<"h", ":", "1">>
BadEndpoint == <<"h">>

Peer(public_key, endpoint) ==
    [public_key |-> public_key, endpoint |-> endpoint]

Interface(public_key, listen_port, address, has_script_bind_iface, binding_iface) ==
    [public_key |-> public_key, listen_port |-> listen_port,
     address |-> address, has_script_bind_iface |-> has_script_bind_iface,
     binding_iface |-> binding_iface]

WireguardConfig(interface, peers) == [interface |-> interface, peers |-> peers]

GoodInterface == Interface(Some(Key), Some(<<"1">>), Some(<<"a">>), FALSE, None)
GoodPeer == Peer(Some(Key), Some(GoodEndpoint))

\* Configurations a tunnel can hold: one that is valid for activation and
\* whose endpoints parse, one that is valid with an endpoint that does not
\* parse, and ones that are not valid.
Configs ==
    { WireguardConfig(GoodInterface, <<GoodPeer, Peer(Some(Key), None)>>),
      WireguardConfig(GoodInterface, <<GoodPeer, Peer(Some(Key), Some(BadEndpoint))>>),
      WireguardConfig([GoodInterface EXCEPT !.listen_port = None], <<GoodPeer>>),
      WireguardConfig(GoodInterface, <<GoodPeer, Peer(Some(Blank), None)>>),
      WireguardConfig([GoodInterface EXCEPT !.has_script_bind_iface = TRUE],
                      <<GoodPeer>>) }

\* Tunnel::is_cfg_valid: the error message of the first failing check, or Ok.
Ok == "Ok"

is_cfg_valid(config) ==
    LET iface == config.interface
        peers == config.peers
    IN  IF is_none(iface.public_key)
        THEN "Public key is not defined in interface section"
        ELSE IF is_none(iface.listen_port)
        THEN "Listen port is not defined in interface section"
        ELSE IF is_none(iface.address)
        THEN "IP address is not defined in interface section"
        ELSE IF peers = <<>>
        THEN "No peers defined"
        ELSE IF \E i \in 1..Len(peers) :
                   \/ is_none(peers[i].public_key)
                   \/ trim(peers[i].public_key[1]) = Empty
        THEN "Peer public key is empty"
        ELSE IF iface.has_script_bind_iface /\ is_none(iface.binding_iface)
        THEN "Binding interface cannot be selected as 'None'"
        ELSE Ok


\* ------------------------------------------------------ the process runner
\* ExitStatus::code(): Some(code) of a child that exited, None of one that a
\* signal ended.
ExitCodes == {Some(0), Some(1), None}

\* What a child leaves in its stdout and stderr pipes. `wg show` is spawned
\* with stdout piped only, wg-quick with both.
OutText == <<"o", "\n">>
child_outputs(action) ==
    IF action = "show"
    THEN {<<Empty, Empty>>, <<OutText, Empty>>}
    ELSE {<<Empty, Empty>>, <<Empty, OutText>>}

\* io::Result<(Option<i32>, String)> of wait_cmd_with_timeout.
WaitOk(status_code, output) == [ok |-> TRUE, code |-> status_code, output |-> output]
WaitErr == [ok |-> FALSE, code |-> None, output |-> Empty]
NoRes == [ok |-> FALSE, code |-> None, output |-> <<"-">>]

\* format!("{}\n{}", stdout_buf, stderr_buf)
combined_output(stdout_buf, stderr_buf) == stdout_buf \o Newline \o stderr_buf

\* The status codes kill() followed by wait() can obtain: None when the
\* signal ended the child, the child's own code when it exited between the
\* return of wait_timeout and the signal.
codes_after_kill == ExitCodes

\* What wait_cmd_with_timeout returns once it has the status code and its
\* reads have ended: Ok with the code and the output, or a read's io::Error.
read_results(action, codes) ==
    {WaitErr} \cup
    {WaitOk(code, combined_output(o[1], o[2])) :
        code \in codes, o \in child_outputs(action)}

\* ------------------------------------------------------- the network state
NetState == {"IplinkUp", "IplinkDown", "WgQuickUp", "WgQuickDown"}

\* What getifaddrs() can answer about the interface.
Skipped == [q |-> "skipped", flags |-> {}]
FlagOutcomes ==
    {[q |-> "err", flags |-> {}], [q |-> "absent", flags |-> {}]}
    \cup {[q |-> "found", flags |-> F] : F \in SUBSET {"UP", "RUNNING"}}

\* Tunnel::is_interface_up: Result<bool, io::Error>
is_interface_up(fl) ==
    IF fl.q = "err" THEN [ok |-> FALSE, val |-> FALSE]
    ELSE IF fl.q = "found"
    THEN [ok |-> TRUE, val |-> "UP" \in fl.flags /\ "RUNNING" \in fl.flags]
    ELSE [ok |-> TRUE, val |-> FALSE]

unwrap_or(r, default) == IF r.ok THEN r.val ELSE default

\* The test is_wg_iface_running applies to the result of `wg show`.
show_reports_running(res) ==
    res.ok /\ res.code = Some(0) /\ res.output # Empty

\* Tunnel::is_wg_iface_running, from the result of `wg show` and the flags.
is_wg_iface_running(res, fl) ==
    IF ~show_reports_running(res) THEN "WgQuickDown"
    ELSE IF ~unwrap_or(is_interface_up(fl), FALSE) THEN "IplinkDown"
    ELSE "WgQuickUp"

\* ------------------------------------------------------------ the toggle
\* anyhow::Result<()> of execute_toggle and of run_wg_quick.
ResultOk == [ok |-> TRUE, err |-> "", action |-> "", output |-> Empty]
Err(msg, action, output) ==
    [ok |-> FALSE, err |-> msg, action |-> action, output |-> output]
NoResult == [ok |-> FALSE, err |-> "-", action |-> "", output |-> Empty]

\* run_wg_quick after the spawn: what it makes of the runner's result.
run_wg_quick(action, res) ==
    IF ~res.ok THEN Err("Command timeout or IO error", action, Empty)
    ELSE IF res.code # Some(0)
    THEN Err("Failed to execute wg-quick", action, trim(res.output))
    ELSE ResultOk

\* A match whose IplinkDown arm forgets the reset and runs "up" alone.
match_state_without_reset(state) ==
    CASE state = "IplinkDown" -> <<"up">>
      [] state = "WgQuickUp" -> <<"down">>
      [] state = "WgQuickDown" -> <<"up">>
      [] OTHER -> <<>>

\* The match of execute_toggle: the wg-quick actions to run, in order; the
\* empty sequence stands for the arm that bails.
match_state(state) ==
    CASE state = "IplinkDown" -> <<"down", "up">>
      [] state = "WgQuickUp" -> <<"down">>
      [] state = "WgQuickDown" -> <<"up">>
      [] OTHER -> <<>>

\* A oneshot command running execute_toggle.
\*   pc             where the thread is:
\*                    start       about to run is_wg_iface_running
\*                    kill        in wait_cmd_with_timeout, wait_timeout has
\*                                returned None
\*                    read        in wait_cmd_with_timeout, in a read_to_string
\*                                that has not met the end of the pipe
\*                    classified  is_wg_iface_running has returned
\*                    run         about to call run_wg_quick(Head(todo))
\*                    done        execute_toggle has returned
\*   current_active data.active as captured by the Toggle handler
\*   action         the child last spawned: show, down, up
\*   state          the state execute_toggle classified
\*   todo           the wg-quick actions of the match arm not yet completed
\*   log            the actions run_wg_quick was called with so far (history)
\*   timed_out      wait_timeout returned None for the child (history)
\*   res            what wait_cmd_with_timeout returned last
\*   fl             what the flag query answered
\*   result         what execute_toggle returned
Idle ==
    [pc |-> "idle", current_active |-> FALSE, action |-> "none",
     state |-> "none", todo |-> <<>>, log |-> <<>>, timed_out |-> FALSE,
     res |-> NoRes, fl |-> Skipped, result |-> NoResult]

Slots == 1..MaxInFlight

\* The command goes on after wait_cmd_with_timeout has returned res: in
\* is_wg_iface_running for `wg show`, in run_wg_quick and execute_toggle
\* for wg-quick.
Return(cmd, res, fl) ==
    LET back == [cmd EXCEPT !.res = res, !.timed_out = FALSE]
        r == run_wg_quick(cmd.action, res)
    IN  IF cmd.action = "show"
        THEN [back EXCEPT !.pc = "classified",
                          !.fl = IF show_reports_running(res) THEN fl ELSE Skipped,
                          !.state = is_wg_iface_running(res, fl)]
        ELSE IF ~r.ok
        THEN [back EXCEPT !.pc = "done", !.result = r, !.todo = <<>>]
        ELSE IF Tail(cmd.todo) = <<>>
        THEN [back EXCEPT !.pc = "done", !.result = ResultOk, !.todo = <<>>]
        ELSE [back EXCEPT !.pc = "run", !.todo = Tail(cmd.todo)]

\* The flag query is made only when `wg show` reports the interface.
flag_outcomes(cmd, res) ==
    IF cmd.action = "show" /\ show_reports_running(res)
    THEN FlagOutcomes
    ELSE {Skipped}

Returns(cmd, results) ==
    UNION {{Return(cmd, res, fl) : fl \in flag_outcomes(cmd, res)} : res \in results}

\* wait_cmd_with_timeout from its start, for the child cmd.action just
\* spawned, up to its return or to the place where it waits for others:
\*   wait_timeout fails, and `?` returns the error;
\*   wait_timeout returns None: the child is running when the time is up;
\*   wait_timeout returns Some(status), and a read does not meet the end of
\*     the pipe, another process holding its write end;
\*   wait_timeout returns Some(status), and the reads end.
wait_cmd_with_timeout(cmd) ==
    Returns(cmd, {WaitErr})
    \cup {[cmd EXCEPT !.pc = "kill", !.timed_out = TRUE]}
    \cup {[cmd EXCEPT !.pc = "read"]}
    \cup Returns(cmd, read_results(cmd.action, ExitCodes))

\* ----------------------------------------------------- the component's UI
\* TunnelMsg::Toggle; `by` records what changed the switch (history).
Toggle(by) == [msg |-> "Toggle", by |-> by]

\* TunnelOutput::Error
TunnelOutputError(msg, cause) == [out |-> "Error", msg |-> msg, cause |-> cause]

\* connect_state_notify => Toggle: a change of the switch's `state` property
\* sends Toggle to the component, whoever changed it.
state_notify(old, new, queue, by) ==
    IF old # new THEN Append(queue, Toggle(by)) ELSE queue

\* TunnelCommandOutput of the closure given to spawn_oneshot_command.
command_output(current_active, result) ==
    IF result.ok
    THEN [out |-> "ToggleSuccess", active |-> ~current_active, cause |-> result]
    ELSE [out |-> "ToggleError", active |-> FALSE, cause |-> result]

\* A handler that flips the flag it finds instead of taking the new state
\* from the message.
active_after_flipping(message, active) ==
    IF message.out = "ToggleSuccess" THEN ~active ELSE active

\* update_cmd_with_view: data.active after the message.
active_after(message, active) ==
    IF message.out = "ToggleSuccess" THEN message.active ELSE active

InFlight == {c \in Slots : cmds[c].pc # "idle"}

\* --------------------------------------------------------------- the state
Init ==
    /\ \E active \in BOOLEAN, saved \in BOOLEAN, config \in Configs :
          \* TunnelData::new; the view sets the switch from data.active
          /\ data = [active |-> active, saved |-> saved, config |-> config]
          /\ switch = active
    /\ inputQ = <<>>
    /\ cmds = [c \in Slots |-> Idle]
    /\ emitted = <<>>
    /\ codec = NoCall
    /\ routing = NoCall
    /\ loading = NoCall
    /\ scan = NoCall
    /\ save = NoCall
    /\ app = NoCall
    /\ startup = NoCall
    /\ editor = NoCall

\* ------------------------------------------------------- the main thread
\* The user flips the switch.
UserClick ==
    /\ Len(inputQ) < MaxQueue
    /\ switch' = ~switch
    /\ inputQ' = state_notify(switch, ~switch, inputQ, "user")
    /\ emitted' = <<>>
    /\ UNCHANGED <<data, cmds>>
    /\ UNCHANGED calls

\* AppMsg::TunnelModified for this tunnel: a field was edited.
TunnelModified ==
    /\ data.saved
    /\ data' = [data EXCEPT !.saved = FALSE]
    /\ emitted' = <<>>
    /\ UNCHANGED <<switch, inputQ, cmds>>
    /\ UNCHANGED calls

\* update_with_view, TunnelMsg::Toggle: a validation fails.
ToggleRejected ==
    /\ inputQ # <<>>
    /\ ~data.active
    /\ ~data.saved \/ is_cfg_valid(data.config) # Ok
    /\ emitted' =
          <<TunnelOutputError(
              IF ~data.saved
              THEN "You must save the configuration before activating the tunnel."
              ELSE is_cfg_valid(data.config),
              NoResult)>>
    /\ switch' = FALSE
    /\ inputQ' = state_notify(switch, FALSE, Tail(inputQ), "set_state")
    /\ UNCHANGED <<data, cmds>>
    /\ UNCHANGED calls

\* update_with_view, TunnelMsg::Toggle: the command is spawned, in the
\* first free slot of S.
ToggleSpawned(S) ==
    /\ inputQ # <<>>
    /\ data.active \/ (data.saved /\ is_cfg_valid(data.config) = Ok)
    /\ S \ InFlight # {}
    /\ LET c == CHOOSE f \in S \ InFlight : \A g \in S \ InFlight : f <= g
       IN  cmds' = [cmds EXCEPT ![c] =
                       [Idle EXCEPT !.pc = "start",
                                    !.current_active = data.active]]
    /\ inputQ' = Tail(inputQ)
    /\ emitted' = <<>>
    /\ UNCHANGED <<data, switch>>
    /\ UNCHANGED calls

\* update_cmd_with_view: the result of a command is delivered.
Deliver(c) ==
    /\ cmds[c].pc = "done"
    /\ Len(inputQ) < MaxQueue
    /\ LET message == command_output(cmds[c].current_active, cmds[c].result)
           active == active_after(message, data.active)
       IN  /\ data' = [data EXCEPT !.active = active]
           /\ switch' = active
           /\ inputQ' = state_notify(switch, active, inputQ, "set_state")
           /\ emitted' =
                 IF message.out = "ToggleError"
                 THEN <<TunnelOutputError("Failed to toggle tunnel", message.cause)>>
                 ELSE <<>>
    /\ cmds' = [cmds EXCEPT ![c] = Idle]
    /\ UNCHANGED calls

\* ----------------------------------------------------- a command's thread
\* is_wg_iface_running spawns `wg show` and waits for it. A failed spawn
\* panics (expect), and the thread ends without a result.
SpawnShow(c) ==
    /\ cmds[c].pc = "start"
    /\ \/ cmds' = [cmds EXCEPT ![c] = Idle]
       \/ \E next \in wait_cmd_with_timeout([cmds[c] EXCEPT !.action = "show"]) :
             cmds' = [cmds EXCEPT ![c] = next]
    /\ emitted' = <<>>
    /\ UNCHANGED <<data, switch, inputQ>>
    /\ UNCHANGED calls

\* cmd.kill()?; cmd.wait()?.code(), and the reads: an io::Error of kill or
\* wait, a read that does not meet the end of the pipe, or the return.
KillAndReap(c) ==
    /\ cmds[c].pc = "kill"
    /\ \/ \E next \in Returns(cmds[c], {WaitErr}) :
             cmds' = [cmds EXCEPT ![c] = next]
       \/ cmds' = [cmds EXCEPT ![c] = [cmds[c] EXCEPT !.pc = "read"]]
       \/ \E next \in Returns(cmds[c],
                               read_results(cmds[c].action, codes_after_kill)) :
             cmds' = [cmds EXCEPT ![c] = next]
    /\ emitted' = <<>>
    /\ UNCHANGED <<data, switch, inputQ>>
    /\ UNCHANGED calls

\* The processes holding the write ends of the child's pipes close them or
\* end: the reads meet the end of the pipes and the function returns.
ReadCompletes(c) ==
    /\ cmds[c].pc = "read"
    /\ \E next \in Returns(cmds[c], read_results(cmds[c].action, ExitCodes)) :
          cmds' = [cmds EXCEPT ![c] = next]
    /\ emitted' = <<>>
    /\ UNCHANGED <<data, switch, inputQ>>
    /\ UNCHANGED calls

\* execute_toggle matches the state it classified.
ExecuteMatch(c) ==
    /\ cmds[c].pc = "classified"
    /\ LET cmd == cmds[c]
           arm == match_state(cmd.state)
       IN  cmds' = [cmds EXCEPT ![c] =
                       IF arm = <<>>
                       THEN [cmd EXCEPT !.pc = "done",
                                        !.result = Err("Unknown interface state",
                                                       "", Empty)]
                       ELSE [cmd EXCEPT !.pc = "run", !.todo = arm,
                                        !.res = NoRes, !.fl = Skipped]]
    /\ emitted' = <<>>
    /\ UNCHANGED <<data, switch, inputQ>>
    /\ UNCHANGED calls

\* run_wg_quick spawns wg-quick with the next action of the arm and waits
\* for it; a failed spawn is an error of the toggle.
SpawnWgQuick(c) ==
    /\ cmds[c].pc = "run"
    /\ LET cmd == cmds[c]
           action == Head(cmd.todo)
       IN  \/ cmds' = [cmds EXCEPT ![c] =
                          [cmd EXCEPT !.pc = "done", !.action = action,
                                      !.log = Append(cmd.log, action),
                                      !.res = NoRes, !.todo = <<>>,
                                      !.result = Err("Failed to spawn wg-quick",
                                                     action, Empty)]]
           \/ \E next \in wait_cmd_with_timeout(
                             [cmd EXCEPT !.action = action,
                                         !.log = Append(cmd.log, action),
                                         !.res = NoRes]) :
                 cmds' = [cmds EXCEPT ![c] = next]
    /\ emitted' = <<>>
    /\ UNCHANGED <<data, switch, inputQ>>
    /\ UNCHANGED calls

\* The steps of the thread of command c.
Thread(c) ==
    \/ SpawnShow(c)
    \/ KillAndReap(c)
    \/ ExecuteMatch(c)
    \/ SpawnWgQuick(c)

\* The application with its commands in the slots S.
NextOn(S) ==
    \/ UserClick
    \/ TunnelModified
    \/ ToggleRejected
    \/ ToggleSpawned(S)
    \/ \E c \in S :
          \/ Deliver(c)
          \/ Thread(c)
          \/ ReadCompletes(c)

Next == NextOn(Slots)

\* Any number of toggles in flight, up to the bound.
Spec == Init /\ [][Next]_vars

\* The behaviours of Spec in which a Toggle message is handled only when no
\* command is in flight.
NextSerial == NextOn({1})
SpecSerial == Init /\ [][NextSerial]_vars

\* The threads run: a step of a thread that is possible is taken. Whether
\* the holders of a pipe ever close it is up to them.
FairSpecSerial == SpecSerial /\ WF_vars(Thread(1)) /\ WF_vars(Deliver(1))

\* ================================================================ claims
Running(cmd) == cmd.pc \in {"kill", "read"}
TimedOut(cmd) == cmd.pc = "kill" \/ (cmd.pc = "read" /\ cmd.timed_out)
Last(seq) == seq[Len(seq)]

\* ---------------------------------------------------------------------- C1
\* C1: the wg-quick actions a toggle runs follow from the state it
\* classified: "up" alone for WgQuickDown, "down" alone for WgQuickUp,
\* "down" then "up" for IplinkDown; "up" follows "down" only when the runner
\* returned exit code 0 for "down", and a toggle whose "down" failed ends
\* failed with "down" alone.
C1_Runs(cmd) ==
    /\ cmd.log # <<>> =>
          \/ cmd.state = "WgQuickDown" /\ cmd.log = <<"up">>
          \/ cmd.state = "WgQuickUp" /\ cmd.log = <<"down">>
          \/ cmd.state = "IplinkDown" /\ cmd.log \in {<<"down">>, <<"down", "up">>}
    /\ cmd.pc = "done" =>
          /\ cmd.state \in {"WgQuickDown", "WgQuickUp", "IplinkDown"}
          /\ cmd.log # <<>>
          /\ cmd.state = "IplinkDown" /\ cmd.result.ok => cmd.log = <<"down", "up">>
          /\ cmd.log = <<"down">> /\ cmd.state = "IplinkDown" =>
                ~cmd.result.ok /\ cmd.result.action = "down"

C1_UpAfterDown(c) ==
    cmds[c].log = <<"down">> /\ cmds'[c].log = <<"down", "up">> =>
        cmds[c].res.ok /\ cmds[c].res.code = Some(0)

C1_ToggleSequence ==
    /\ [](\A c \in Slots : C1_Runs(cmds[c]))
    /\ [][\A c \in Slots : C1_UpAfterDown(c)]_vars

\* A toggle that found IplinkDown has run "down" and "up" and succeeded.
C1_Witness ==
    \E c \in Slots :
        /\ cmds[c].pc = "done"
        /\ cmds[c].state = "IplinkDown"
        /\ cmds[c].log = <<"down", "up">>
        /\ cmds[c].result.ok

\* ---------------------------------------------------------------------- C2
\* C2: the state query answers WgQuickDown when `wg show` exits non-zero,
\* times out or cannot be waited on, otherwise IplinkDown when the interface
\* is not both UP and RUNNING, is absent or the flag query fails, otherwise
\* WgQuickUp; never IplinkUp, and no toggle fails with "Unknown interface
\* state".
C2_Expected(res, fl) ==
    IF ~(res.ok /\ res.code = Some(0)) THEN "WgQuickDown"
    ELSE IF ~(fl.q = "found" /\ {"UP", "RUNNING"} \subseteq fl.flags) THEN "IplinkDown"
    ELSE "WgQuickUp"

C2_Classified(cmd) ==
    /\ cmd.pc = "classified" => cmd.state = C2_Expected(cmd.res, cmd.fl)
    /\ cmd.state # "IplinkUp"
    /\ cmd.result.err # "Unknown interface state"

C2_ShowTimedOut(c) ==
    cmds[c].action = "show" /\ TimedOut(cmds[c]) /\ cmds'[c].pc = "classified" =>
        cmds'[c].state = "WgQuickDown"

C2_StateQuery ==
    /\ [](\A c \in Slots : C2_Classified(cmds[c]))
    /\ [][\A c \in Slots : C2_ShowTimedOut(c)]_vars

\* ---------------------------------------------------------------------- C3
\* C3: when `wg show` exits with code 0 and writes nothing, the state query
\* answers WgQuickDown.
C3_EmptyShowIsDown ==
    \A c \in Slots :
        (/\ cmds[c].pc = "classified"
         /\ cmds[c].res.ok
         /\ cmds[c].res.code = Some(0)
         /\ cmds[c].res.output = combined_output(Empty, Empty))
        => cmds[c].state = "WgQuickDown"

\* ---------------------------------------------------------------------- C4
\* C4: a toggle that classified a state other than WgQuickUp calls wg-quick
\* only when every endpoint present in the configuration is a host:port
\* address.
IsDigit(ch) == ch \in {"0", "1", "2", "3", "4", "5", "6", "7", "8", "9"}

EndpointParses(e) ==
    \E i \in 2..(Len(e) - 1) :
        /\ e[i] = ":"
        /\ \A j \in (i + 1)..Len(e) : IsDigit(e[j])

EndpointsParse(config) ==
    \A i \in 1..Len(config.peers) :
        is_some(config.peers[i].endpoint) => EndpointParses(config.peers[i].endpoint[1])

C4_EndpointsChecked ==
    \A c \in Slots :
        cmds[c].log # <<>> /\ cmds[c].state # "WgQuickUp" => EndpointsParse(data.config)

\* ---------------------------------------------------------------------- C5
\* C5: a wg-quick that the runner reports with a status code other than
\* Some(0) makes the toggle fail with the trimmed captured output; when the
\* result is delivered, a failure leaves data.active as it is and emits the
\* error, a success sets data.active to the negation of the value captured
\* when the Toggle message was handled.
C5_Failed(cmd) ==
    cmd.pc = "done" /\ cmd.res.ok /\ cmd.res.code # Some(0) =>
        /\ ~cmd.result.ok
        /\ cmd.result.err = "Failed to execute wg-quick"
        /\ cmd.result.action = Last(cmd.log)
        /\ cmd.result.output = trim(cmd.res.output)

C5_Delivered(c) ==
    cmds[c].pc = "done" /\ cmds'[c].pc # "done" =>
        IF cmds[c].result.ok
        THEN data'.active = ~cmds[c].current_active /\ emitted' = <<>>
        ELSE /\ data'.active = data.active
             /\ emitted' = <<TunnelOutputError("Failed to toggle tunnel",
                                               cmds[c].result)>>

C5_ToggleResult ==
    /\ [](\A c \in Slots : C5_Failed(cmds[c]))
    /\ [][\A c \in Slots : C5_Delivered(c)]_vars

\* A toggle has succeeded, and data.active is no longer what it was when
\* its Toggle message was handled.
C5_Witness ==
    \E c \in Slots :
        /\ cmds[c].pc = "done"
        /\ cmds[c].result.ok
        /\ cmds[c].current_active # data.active

\* ---------------------------------------------------------------------- C6
\* C6: a child still running when the timeout is up is killed and waited
\* on, and its caller takes the call as failed: the toggle fails for
\* wg-quick, the state is WgQuickDown for `wg show`.
C6_TimedOutFails(c) ==
    TimedOut(cmds[c]) /\ ~Running(cmds'[c]) =>
        IF cmds[c].action = "show"
        THEN cmds'[c].pc = "classified" /\ cmds'[c].state = "WgQuickDown"
        ELSE cmds'[c].pc = "done" /\ ~cmds'[c].result.ok

C6_TimeoutIsFailure == [][\A c \in Slots : C6_TimedOutFails(c)]_vars

\* ---------------------------------------------------------------------- C7
\* C7: wait_cmd_with_timeout returns in the end, whatever the child does.
C7_RunnerReturns == \A c \in Slots : Running(cmds[c]) ~> ~Running(cmds[c])

\* ---------------------------------------------------------------------- C8
\* C8: wg-quick "up" is called only for a configuration that is saved and
\* valid for activation.
ValidForActivation(config) ==
    /\ is_some(config.interface.public_key)
    /\ is_some(config.interface.listen_port)
    /\ is_some(config.interface.address)
    /\ config.peers # <<>>
    /\ \A i \in 1..Len(config.peers) :
          is_some(config.peers[i].public_key) /\ config.peers[i].public_key[1] # Empty
    /\ config.interface.has_script_bind_iface => is_some(config.interface.binding_iface)

C8_UpCalled(c) ==
    cmds'[c].log # cmds[c].log /\ Last(cmds'[c].log) = "up" =>
        data.saved /\ ValidForActivation(data.config)

C8_UpOnlyIfValid == [][\A c \in Slots : C8_UpCalled(c)]_vars

\* ---------------------------------------------------------------------- C9
\* C9: at most one toggle of the tunnel is in flight.
C9_OneInFlight == Cardinality(InFlight) <= 1

\* --------------------------------------------------------------------- C10
\* C10: a failed toggle emits exactly one error, and a toggle starts only
\* for a Toggle message the user caused: none follows from the handling of
\* a ToggleError.
C10_Step ==
    /\ \A c \in Slots :
          cmds[c].pc = "done" /\ ~cmds[c].result.ok /\ cmds'[c].pc # "done" =>
              Len(emitted') = 1
    /\ (\E c \in Slots : cmds[c].pc = "idle" /\ cmds'[c].pc = "start") =>
          Head(inputQ).by = "user"

C10_NoRetry == [][C10_Step]_vars

\* ====================================================== src/config.rs
\* A string is a sequence of symbols. A symbol is one of the characters the
\* code looks for ("[", "]", "#", "=", " ", "\n", "/", ";") or a word that
\* holds none of them.

\* ----------------------------------------------------------- str methods
Space == <<" ">>
Assign == <<" ", "=", " ">>

starts_with(s, p) == Len(s) >= Len(p) /\ SubSeq(s, 1, Len(p)) = p
ends_with(s, p) == Len(s) >= Len(p) /\ SubSeq(s, Len(s) - Len(p) + 1, Len(s)) = p

strip_prefix(s, p) ==
    IF starts_with(s, p) THEN Some(SubSeq(s, Len(p) + 1, Len(s))) ELSE None

strip_suffix(s, p) ==
    IF ends_with(s, p) THEN Some(SubSeq(s, 1, Len(s) - Len(p))) ELSE None

\* The first index of ch in s, 0 when there is none.
find(s, ch) ==
    IF \E i \in 1..Len(s) : s[i] = ch
    THEN CHOOSE i \in 1..Len(s) : s[i] = ch /\ \A j \in 1..(i - 1) : s[j] # ch
    ELSE 0

\* str::split_once: Some(<<left, right>>) around the first ch.
split_once(s, ch) ==
    LET i == find(s, ch)
    IN  IF i = 0 THEN None
        ELSE Some(<<SubSeq(s, 1, i - 1), SubSeq(s, i + 1, Len(s))>>)

\* str::split: the pieces between the occurrences of ch.
RECURSIVE split(_, _)
split(s, ch) ==
    LET i == find(s, ch)
    IN  IF i = 0 THEN <<s>>
        ELSE <<SubSeq(s, 1, i - 1)>> \o split(SubSeq(s, i + 1, Len(s)), ch)

\* str::replace: every match of from, left to right and not overlapping,
\* becomes to; an empty from matches at every boundary.
RECURSIVE replace_from(_, _, _)
replace_from(s, from, to) ==
    IF s = Empty THEN Empty
    ELSE IF starts_with(s, from)
    THEN to \o replace_from(SubSeq(s, Len(from) + 1, Len(s)), from, to)
    ELSE <<Head(s)>> \o replace_from(Tail(s), from, to)

RECURSIVE interleave(_, _)
interleave(s, to) ==
    IF s = Empty THEN to ELSE to \o <<Head(s)>> \o interleave(Tail(s), to)

replace(s, from, to) ==
    IF from = Empty THEN interleave(s, to) ELSE replace_from(s, from, to)

\* ------------------------------------------------------------ the records
\* Interface::default(), Peer::default(), WireguardConfig::default()
DefaultInterface ==
    [name |-> None, address |-> None, listen_port |-> None,
     private_key |-> None, public_key |-> None, dns |-> None, table |-> None,
     mtu |-> None, pre_up |-> None, post_up |-> None, pre_down |-> None,
     post_down |-> None, fwmark |-> None, binding_iface |-> None,
     routing_script_name |-> None, has_script_bind_iface |-> FALSE]

DefaultPeer ==
    [name |-> None, allowed_ips |-> None, endpoint |-> None,
     public_key |-> None, persistent_keepalive |-> None]

DefaultConfig == WireguardConfig(DefaultInterface, <<>>)

\* ---------------------------------------------------- the outside of parse
\* utils::is_ip_valid: the trimmed value parses as an ipnetwork::IpNetwork,
\* an address with or without a prefix length.
IpNetworks == {<<"ip">>, <<"ip", "/", "24">>}

\* A check that takes every non-blank value.
is_ip_valid_when_not_blank(ip) == is_some(ip) /\ trim(ip[1]) # Empty

is_ip_valid(ip) ==
    /\ is_some(ip)
    /\ trim(ip[1]) # Empty
    /\ trim(ip[1]) \in IpNetworks

\* utils::generate_public_key: what `wg pubkey` prints for the trimmed
\* private key; nothing on stdout is an error.
PrivateKeys == {<<"priv">>, <<"priv2">>}

\* A derivation that yields a key for every input.
generate_public_key_of_any(priv_key) ==
    [ok |-> TRUE, val |-> <<"pub">> \o trim(priv_key)]

generate_public_key(priv_key) ==
    IF trim(priv_key) \in PrivateKeys
    THEN [ok |-> TRUE, val |-> <<"pub">> \o trim(priv_key)]
    ELSE [ok |-> FALSE, val |-> Empty]

\* ------------------------------------------------------------ parse_config
\* LineType, with the 1-based number of the line in the input.
Section(section, n) == [t |-> "Section", a |-> section, b |-> Empty, n |-> n]
Comment(comment, n) == [t |-> "Comment", a |-> comment, b |-> Empty, n |-> n]
Attribute(key, value, n) == [t |-> "Attribute", a |-> key, b |-> value, n |-> n]
Unlexed(l, n) == [t |-> "Err", a |-> l, b |-> Empty, n |-> n]

\* The closure of the lexing map, for the trimmed line l.
lex_line(l, n) ==
    LET open == strip_prefix(l, <<"[">>)
        section == IF is_some(open) THEN strip_suffix(open[1], <<"]">>) ELSE None
        comment == strip_prefix(l, <<"#">>)
        kv == split_once(l, "=")
    IN  IF is_some(section) THEN Section(trim(section[1]), n)
        ELSE IF is_some(comment) THEN Comment(trim(comment[1]), n)
        ELSE IF is_some(kv) THEN Attribute(trim(kv[1][1]), trim(kv[1][2]), n)
        ELSE Unlexed(trim(l), n)

\* split('\n').map(str::trim).enumerate().filter(not empty).map(lex)
RECURSIVE lex_lines(_, _)
lex_lines(raw, n) ==
    IF n > Len(raw) THEN <<>>
    ELSE IF trim(raw[n]) = Empty THEN lex_lines(raw, n + 1)
    ELSE <<lex_line(trim(raw[n]), n)>> \o lex_lines(raw, n + 1)

\* Result<WireguardConfig, String>
ParseOk(cfg) == [ok |-> TRUE, cfg |-> cfg]
ParseErr(msg, arg, n) == [ok |-> FALSE, err |-> msg, arg |-> arg, n |-> n]

\* The locals of the main loop.
ParseStart ==
    [cfg |-> DefaultConfig, is_in_interface |-> FALSE, is_in_peer |-> FALSE,
     tmp_peer |-> DefaultPeer]

\* One turn of the loop ends in the next locals or in a return.
Continue(st) == [return |-> FALSE, st |-> st]
Return_Err(e) == [return |-> TRUE, e |-> e]

parse_section(st, name) ==
    IF name = <<"Interface">>
    THEN Continue([st EXCEPT !.is_in_interface = TRUE, !.is_in_peer = FALSE])
    ELSE IF name = <<"Peer">>
    THEN Continue([st EXCEPT !.is_in_interface = FALSE, !.is_in_peer = TRUE])
    ELSE Return_Err(ParseErr("Unexpected interface name", name, 0))

parse_comment(st, comment) ==
    LET kv == split_once(comment, "=")
        key == trim(kv[1][1])
        value == trim(kv[1][2])
        user == strip_prefix(comment, <<"Key", " ", "for", " ">>)
    IN  Continue(
        IF is_some(kv)
        THEN IF st.is_in_interface
             THEN IF key = <<"Name">>
                  THEN [st EXCEPT !.cfg.interface.name = Some(value)]
                  ELSE IF key = <<"BindIface">>
                  THEN [st EXCEPT !.cfg.interface.binding_iface = Some(value)]
                  ELSE IF key = <<"RoutingScriptName">>
                  THEN [st EXCEPT !.cfg.interface.routing_script_name = Some(value)]
                  ELSE st
             ELSE IF st.is_in_peer /\ key = <<"Name">>
             THEN [st EXCEPT !.tmp_peer.name = Some(value)]
             ELSE st
        ELSE IF st.is_in_interface
        THEN IF is_some(user)
             THEN [st EXCEPT !.cfg.interface.name = user]
             ELSE st
        ELSE IF st.is_in_peer /\ is_none(st.tmp_peer.name)
        THEN [st EXCEPT !.tmp_peer.name = Some(comment)]
        ELSE st)

interface_attribute(st, key, value) ==
    LET public == generate_public_key(value)
    IN  CASE key = <<"Address">> ->
               IF ~is_ip_valid(Some(value))
               THEN Return_Err(ParseErr("Invalid IP address", value, 0))
               ELSE Continue([st EXCEPT !.cfg.interface.address = Some(value)])
          [] key = <<"ListenPort">> ->
               Continue([st EXCEPT !.cfg.interface.listen_port = Some(value)])
          [] key = <<"PrivateKey">> ->
               IF ~public.ok
               THEN Return_Err(ParseErr("Generating public key", value, 0))
               ELSE Continue([st EXCEPT !.cfg.interface.public_key = Some(public.val),
                                        !.cfg.interface.private_key = Some(value)])
          [] key = <<"DNS">> -> Continue([st EXCEPT !.cfg.interface.dns = Some(value)])
          [] key = <<"Table">> -> Continue([st EXCEPT !.cfg.interface.table = Some(value)])
          [] key = <<"MTU">> -> Continue([st EXCEPT !.cfg.interface.mtu = Some(value)])
          [] key = <<"PreUp">> -> Continue([st EXCEPT !.cfg.interface.pre_up = Some(value)])
          [] key = <<"PostUp">> -> Continue([st EXCEPT !.cfg.interface.post_up = Some(value)])
          [] key = <<"PreDown">> ->
               Continue([st EXCEPT !.cfg.interface.pre_down = Some(value)])
          [] key = <<"PostDown">> ->
               Continue([st EXCEPT !.cfg.interface.post_down = Some(value)])
          [] key = <<"FwMark">> -> Continue([st EXCEPT !.cfg.interface.fwmark = Some(value)])
          [] OTHER ->
               Return_Err(ParseErr("Unexpected Interface configuration key", key, 0))

\* it.peek() after a peer attribute: peek is None at the end of the input.
peek_after_attribute(st, peek) ==
    IF is_some(peek) /\ peek[1].t = "Section"
    THEN [st EXCEPT !.cfg.peers = Append(@, st.tmp_peer), !.tmp_peer = DefaultPeer]
    ELSE IF is_none(peek)
    THEN [st EXCEPT !.cfg.peers = Append(@, st.tmp_peer)]
    ELSE st

peer_attribute(st, key, value, peek) ==
    CASE key = <<"AllowedIPs">> ->
           Continue(peek_after_attribute(
               [st EXCEPT !.tmp_peer.allowed_ips = Some(value)], peek))
      [] key = <<"Endpoint">> ->
           Continue(peek_after_attribute(
               [st EXCEPT !.tmp_peer.endpoint = Some(value)], peek))
      [] key = <<"PublicKey">> ->
           Continue(peek_after_attribute(
               [st EXCEPT !.tmp_peer.public_key = Some(value)], peek))
      [] key = <<"PersistentKeepalive">> ->
           Continue(peek_after_attribute(
               [st EXCEPT !.tmp_peer.persistent_keepalive = Some(value)], peek))
      [] OTHER -> Return_Err(ParseErr("Unexpected Peer configuration key", key, 0))

parse_attribute(st, key, value, peek) ==
    IF st.is_in_interface THEN interface_attribute(st, key, value)
    ELSE IF st.is_in_peer THEN peer_attribute(st, key, value, peek)
    ELSE Return_Err(ParseErr("Unexpected attribute", key, 0))

\* while let Some(l) = it.next() { match l { .. } }
RECURSIVE parse_loop(_, _, _)
parse_loop(lexed, i, st) ==
    IF i > Len(lexed) THEN ParseOk(st.cfg)
    ELSE LET l == lexed[i]
             peek == IF i < Len(lexed) THEN Some(lexed[i + 1]) ELSE None
             turn == CASE l.t = "Section" -> parse_section(st, l.a)
                       [] l.t = "Comment" -> parse_comment(st, l.a)
                       [] OTHER -> parse_attribute(st, l.a, l.b, peek)
         IN  IF turn.return THEN turn.e ELSE parse_loop(lexed, i + 1, turn.st)

\* collect::<Result<Vec<LineType>, String>>()?: the first line that is not
\* lexed is the error.
parse_config(s) ==
    LET lexed == lex_lines(split(s, "\n"), 1)
        bad == {i \in 1..Len(lexed) : lexed[i].t = "Err"}
        first == CHOOSE i \in bad : \A j \in bad : i <= j
    IN  IF bad # {}
        THEN ParseErr("Couldn't parse line", lexed[first].a, lexed[first].n)
        ELSE parse_loop(lexed, 1, ParseStart)

\* ------------------------------------------------------------ write_config
\* Some(key).zip(value): Option<(&str, &str)>
zip(key, value) == IF is_some(value) THEN Some(<<key, value[1]>>) ELSE None

\* A "# BindIface" entry that leaves out the filter.
bind_iface_kv_unfiltered(iface) == zip(<<"#", " ", "BindIface">>, iface.binding_iface)

\* Some("# BindIface").zip(..).filter(|_| iface.has_script_bind_iface)
bind_iface_kv(iface) ==
    IF iface.has_script_bind_iface
    THEN zip(<<"#", " ", "BindIface">>, iface.binding_iface)
    ELSE None

iface_kvs(iface) ==
    << zip(<<"#", " ", "Name">>, iface.name),
       bind_iface_kv(iface),
       zip(<<"#", " ", "RoutingScriptName">>, iface.routing_script_name),
       zip(<<"Address">>, iface.address),
       zip(<<"ListenPort">>, iface.listen_port),
       zip(<<"PrivateKey">>, iface.private_key),
       zip(<<"DNS">>, iface.dns),
       zip(<<"Table">>, iface.table),
       zip(<<"MTU">>, iface.mtu),
       zip(<<"PreUp">>, iface.pre_up),
       zip(<<"PostUp">>, iface.post_up),
       zip(<<"PreDown">>, iface.pre_down),
       zip(<<"PostDown">>, iface.post_down),
       zip(<<"FwMark">>, iface.fwmark) >>

peer_kvs(peer) ==
    << zip(<<"#", " ", "Name">>, peer.name),
       zip(<<"AllowedIPs">>, peer.allowed_ips),
       zip(<<"Endpoint">>, peer.endpoint),
       zip(<<"PublicKey">>, peer.public_key),
       zip(<<"PersistentKeepalive">>, peer.persistent_keepalive) >>

\* for (key, value) in kvs.into_iter().flatten() { push key, " = ", value, '\n' }
RECURSIVE push_kvs(_)
push_kvs(kvs) ==
    IF kvs = <<>> THEN Empty
    ELSE (IF is_some(Head(kvs))
          THEN Head(kvs)[1][1] \o Assign \o Head(kvs)[1][2] \o Newline
          ELSE Empty) \o push_kvs(Tail(kvs))

RECURSIVE push_peers(_)
push_peers(peers) ==
    IF peers = <<>> THEN Empty
    ELSE <<"[", "Peer", "]">> \o Newline \o push_kvs(peer_kvs(Head(peers)))
         \o Newline \o push_peers(Tail(peers))

write_config(c) ==
    <<"[", "Interface", "]">> \o Newline \o push_kvs(iface_kvs(c.interface))
    \o Newline \o push_peers(c.peers)

\* ------------------------------------------------- the codec's callers
\* Sequences over S of length 0..n.
SeqsUpTo(S, n) == UNION {[1..k -> S] : k \in 0..n}

\* The application before a tunnel row exists.
NoTunnel ==
    /\ data = [active |-> FALSE, saved |-> FALSE,
               config |-> WireguardConfig(GoodInterface, <<>>)]
    /\ switch = FALSE
    /\ inputQ = <<>>
    /\ cmds = [c \in Slots |-> Idle]
    /\ emitted = <<>>

\* Configs given to write_config: every combination of six interface
\* fields present or absent, and an interface with every field present.
SomeOrNone(v) == {None, Some(v)}

FullInterface ==
    [name |-> Some(<<"wg0">>), address |-> Some(<<"ip", "/", "24">>),
     listen_port |-> Some(<<"51820">>), private_key |-> Some(<<"priv">>),
     public_key |-> Some(<<"pub">>), dns |-> Some(<<"dns">>),
     table |-> Some(<<"off">>), mtu |-> Some(<<"1420">>),
     pre_up |-> Some(<<"ip", " ", "a">>), post_up |-> Some(<<"ip", " ", "b">>),
     pre_down |-> Some(<<"ip", " ", "c">>), post_down |-> Some(<<"ip", " ", "d">>),
     fwmark |-> Some(<<"51">>), binding_iface |-> Some(<<"eth0">>),
     routing_script_name |-> Some(<<"script">>), has_script_bind_iface |-> TRUE]

CodecInterfaces ==
    {[DefaultInterface EXCEPT !.name = name, !.address = address,
                              !.private_key = private_key,
                              !.public_key = IF is_some(private_key)
                                             THEN Some(<<"pub">>) ELSE None,
                              !.pre_up = pre_up, !.binding_iface = binding_iface,
                              !.has_script_bind_iface = has_script_bind_iface] :
        name \in SomeOrNone(<<"wg0">>),
        address \in SomeOrNone(<<"ip", "/", "24">>),
        private_key \in SomeOrNone(<<"priv">>),
        pre_up \in SomeOrNone(<<"ip", " ", "a">>),
        binding_iface \in SomeOrNone(<<"eth0">>),
        has_script_bind_iface \in BOOLEAN}
    \cup {FullInterface, [FullInterface EXCEPT !.has_script_bind_iface = FALSE]}

CodecPeers ==
    { DefaultPeer,
      [DefaultPeer EXCEPT !.name = Some(<<"n">>)],
      [DefaultPeer EXCEPT !.public_key = Some(<<"K">>)],
      [name |-> Some(<<"n">>), allowed_ips |-> Some(<<"ip", "/", "24">>),
       endpoint |-> Some(<<"h">>), public_key |-> Some(<<"K">>),
       persistent_keepalive |-> Some(<<"25">>)] }

CodecConfigs ==
    {WireguardConfig(interface, peers) :
        interface \in CodecInterfaces, peers \in SeqsUpTo(CodecPeers, MaxPeers)}

\* Lines of the texts given to parse_config.
CodecLines ==
    { <<"[", "Interface", "]">>,
      <<"[", "Peer", "]">>,
      <<"[", "Route", "]">>,
      <<"#", " ", "Name", " ", "=", " ", "n">>,
      <<"#", " ", "note">>,
      <<"Address", " ", "=", " ", "ip", "/", "24">>,
      <<"Address", " ", "=", " ", "bad">>,
      <<"PublicKey", " ", "=", " ", "K">>,
      <<"PrivateKey", " ", "=", " ", "priv">>,
      <<"PrivateKey", " ", "=", " ", "priv2">>,
      <<"PrivateKey", " ", "=", " ", "bad">>,
      <<" ", "Endpoint", "=", "h", " ">>,
      <<"Bogus", " ", "=", " ", "x">>,
      <<"garbage">>,
      Empty }

\* The lines, each with its '\n'.
RECURSIVE unlines(_)
unlines(lines) ==
    IF lines = <<>> THEN Empty ELSE Head(lines) \o Newline \o unlines(Tail(lines))

CodecTexts == {unlines(lines) : lines \in SeqsUpTo(CodecLines, MaxLines)}

\* A call of the codec: the config or the text it starts from, and what
\* write_config and parse_config have made of it so far.
NoParse == [ok |-> FALSE, err |-> "-", arg |-> Empty, n |-> 0]

CodecInit ==
    /\ codec \in
          {[pc |-> "config", from |-> "config", c |-> c, text |-> Empty,
            parsed |-> NoParse, again |-> Empty] : c \in CodecConfigs}
          \cup
          {[pc |-> "text", from |-> "text", c |-> DefaultConfig, text |-> text,
            parsed |-> NoParse, again |-> Empty] : text \in CodecTexts}
    /\ routing = NoCall
    /\ loading = NoCall
    /\ scan = NoCall
    /\ save = NoCall
    /\ app = NoCall
    /\ startup = NoCall
    /\ editor = NoCall
    /\ NoTunnel

\* write_config(&c)
WriteConfig ==
    /\ codec.pc = "config"
    /\ codec' = [codec EXCEPT !.pc = "text", !.text = write_config(codec.c)]
    /\ UNCHANGED <<vars, routing, loading, scan, save, app, startup, editor>>

\* parse_config(&text)
ParseConfig ==
    /\ codec.pc = "text"
    /\ codec' = [codec EXCEPT !.pc = "parsed", !.parsed = parse_config(codec.text)]
    /\ UNCHANGED <<vars, routing, loading, scan, save, app, startup, editor>>

\* write_config of the config parse_config returned
WriteParsed ==
    /\ codec.pc = "parsed"
    /\ codec.parsed.ok
    /\ codec' = [codec EXCEPT !.pc = "written",
                              !.again = write_config(codec.parsed.cfg)]
    /\ UNCHANGED <<vars, routing, loading, scan, save, app, startup, editor>>

CodecNext == WriteConfig \/ ParseConfig \/ WriteParsed

SpecCodec == CodecInit /\ [][CodecNext]_<<vars, calls>>

\* ------------------------------------------------------- claims, the codec
\* The lines of a text as a reader sees them: trimmed, the blank ones left
\* out.
Indices(seq) == [i \in 1..Len(seq) |-> i]
Trimmed(lines) == [i \in 1..Len(lines) |-> trim(lines[i])]
TextLines(text) == SelectSeq(Trimmed(split(text, "\n")), LAMBDA l : l # Empty)

IsSectionLine(l) == Len(l) >= 2 /\ Head(l) = "[" /\ Last(l) = "]"
SectionName(l) == trim(SubSeq(l, 2, Len(l) - 1))
IsCommentLine(l) == ~IsSectionLine(l) /\ Head(l) = "#"
IsAssignment(l) ==
    ~IsSectionLine(l) /\ ~IsCommentLine(l) /\ \E i \in 1..Len(l) : l[i] = "="
KeyOf(l) == trim(split_once(l, "=")[1][1])
ValueOf(l) == trim(split_once(l, "=")[1][2])

Max(S) == CHOOSE i \in S : \A j \in S : j <= i
Min(S) == CHOOSE i \in S : \A j \in S : i <= j

\* The name of the section line i lies in, Empty before the first section.
SectionAt(lines, i) ==
    LET before == {j \in 1..(i - 1) : IsSectionLine(lines[j])}
    IN  IF before = {} THEN Empty ELSE SectionName(lines[Max(before)])

\* The last line of the section that opens at line i.
SectionEnd(lines, i) ==
    LET after == {j \in (i + 1)..Len(lines) : IsSectionLine(lines[j])}
    IN  IF after = {} THEN Len(lines) ELSE Min(after) - 1

InterfaceKeys ==
    {<<"Address">>, <<"ListenPort">>, <<"PrivateKey">>, <<"DNS">>, <<"Table">>,
     <<"MTU">>, <<"PreUp">>, <<"PostUp">>, <<"PreDown">>, <<"PostDown">>,
     <<"FwMark">>}
PeerKeys ==
    {<<"AllowedIPs">>, <<"Endpoint">>, <<"PublicKey">>, <<"PersistentKeepalive">>}

\* ---------------------------------------------------------------------- C17
\* C17: for a config of the explicit fields, the text write_config gives
\* is parsed without error, and writing the parsed config gives the same
\* text again.
C17_RoundTrip ==
    codec.pc # "none" /\ codec.from = "config" =>
        /\ codec.pc \in {"parsed", "written"} => codec.parsed.ok
        /\ codec.pc = "written" => codec.again = codec.text

\* ---------------------------------------------------------------------- C18
\* C18: parse_config returns one peer for each [Peer] section of the text,
\* in the order of the sections, and the attributes of each peer are those
\* assigned inside its section.
C18_LastAssigned(lines, i, key) ==
    LET js == {j \in (i + 1)..SectionEnd(lines, i) :
                  IsAssignment(lines[j]) /\ KeyOf(lines[j]) = key}
    IN  IF js = {} THEN None ELSE Some(ValueOf(lines[Max(js)]))

C18_PeerSections(lines) ==
    SelectSeq(Indices(lines),
              LAMBDA i : IsSectionLine(lines[i]) /\ SectionName(lines[i]) = <<"Peer">>)

C18_SectionHolds(lines, i, peer) ==
    /\ peer.allowed_ips = C18_LastAssigned(lines, i, <<"AllowedIPs">>)
    /\ peer.endpoint = C18_LastAssigned(lines, i, <<"Endpoint">>)
    /\ peer.public_key = C18_LastAssigned(lines, i, <<"PublicKey">>)
    /\ peer.persistent_keepalive = C18_LastAssigned(lines, i, <<"PersistentKeepalive">>)

C18_OnePeerPerSection ==
    codec.pc \in {"parsed", "written"} /\ codec.from = "text" /\ codec.parsed.ok =>
        LET lines == TextLines(codec.text)
            sections == C18_PeerSections(lines)
            peers == codec.parsed.cfg.peers
        IN  /\ Len(peers) = Len(sections)
            /\ \A k \in 1..Len(sections) : C18_SectionHolds(lines, sections[k], peers[k])

\* ---------------------------------------------------------------------- C19
\* C19: write_config gives the line [Interface], one line `Key = value` for
\* each interface field that is present, in the fixed order, a blank line,
\* and for each peer in order the line [Peer], its present fields and a
\* blank line; "# BindIface" is written exactly when has_script_bind_iface
\* is true and binding_iface is present, and the interface's public key is
\* never written.
C19_InterfaceOrder ==
    << <<"name", <<"#", " ", "Name">> >>,
       <<"binding_iface", <<"#", " ", "BindIface">> >>,
       <<"routing_script_name", <<"#", " ", "RoutingScriptName">> >>,
       <<"address", <<"Address">> >>,
       <<"listen_port", <<"ListenPort">> >>,
       <<"private_key", <<"PrivateKey">> >>,
       <<"dns", <<"DNS">> >>,
       <<"table", <<"Table">> >>,
       <<"mtu", <<"MTU">> >>,
       <<"pre_up", <<"PreUp">> >>,
       <<"post_up", <<"PostUp">> >>,
       <<"pre_down", <<"PreDown">> >>,
       <<"post_down", <<"PostDown">> >>,
       <<"fwmark", <<"FwMark">> >> >>

C19_PeerOrder ==
    << <<"name", <<"#", " ", "Name">> >>,
       <<"allowed_ips", <<"AllowedIPs">> >>,
       <<"endpoint", <<"Endpoint">> >>,
       <<"public_key", <<"PublicKey">> >>,
       <<"persistent_keepalive", <<"PersistentKeepalive">> >> >>

C19_Written(rec, e) ==
    /\ is_some(rec[e[1]])
    /\ e[1] = "binding_iface" => rec.has_script_bind_iface

C19_FieldLines(rec, order) ==
    LET present == SelectSeq(order, LAMBDA e : C19_Written(rec, e))
    IN  [k \in 1..Len(present) |->
            present[k][2] \o <<" ", "=", " ">> \o rec[present[k][1]][1]]

RECURSIVE C19_PeerBlocks(_)
C19_PeerBlocks(peers) ==
    IF peers = <<>> THEN <<>>
    ELSE << <<"[", "Peer", "]">> >> \o C19_FieldLines(Head(peers), C19_PeerOrder)
         \o <<Empty>> \o C19_PeerBlocks(Tail(peers))

C19_Lines(c) ==
    << <<"[", "Interface", "]">> >> \o C19_FieldLines(c.interface, C19_InterfaceOrder)
    \o <<Empty>> \o C19_PeerBlocks(c.peers)

C19_WriteFormat ==
    codec.pc # "none" /\ codec.from = "config" /\ codec.pc # "config" =>
        LET lines == split(codec.text, "\n")
            blank == Min({i \in 1..Len(lines) : lines[i] = Empty})
        IN  /\ lines = C19_Lines(codec.c) \o <<Empty>>
            /\ \A i \in 2..(blank - 1) : KeyOf(lines[i]) # <<"PublicKey">>

\* The config with every field present and two peers has been written, and
\* so has one whose binding_iface is present with has_script_bind_iface false.
C19_Witness ==
    /\ codec.pc = "text"
    /\ codec.from = "config"
    /\ \/ codec.c.interface = FullInterface /\ Len(codec.c.peers) = MaxPeers
       \/ /\ is_some(codec.c.interface.binding_iface)
          /\ ~codec.c.interface.has_script_bind_iface

\* ---------------------------------------------------------------------- C20
\* C20: parse_config returns an error, and no config, for a text that holds
\* a section other than Interface and Peer, a line that is no section, no
\* comment and no assignment, an assignment before the first section, an
\* assignment to a key the section does not know, or an Interface Address
\* that is no IP/CIDR.
C20_BadLine(lines, i) ==
    LET l == lines[i]
        section == SectionAt(lines, i)
    IN  \/ IsSectionLine(l) /\ SectionName(l) \notin {<<"Interface">>, <<"Peer">>}
        \/ ~IsSectionLine(l) /\ ~IsCommentLine(l) /\ ~IsAssignment(l)
        \/ /\ IsAssignment(l)
           /\ \/ section = Empty
              \/ section = <<"Interface">> /\ KeyOf(l) \notin InterfaceKeys
              \/ section = <<"Peer">> /\ KeyOf(l) \notin PeerKeys
              \/ /\ section = <<"Interface">>
                 /\ KeyOf(l) = <<"Address">>
                 /\ ValueOf(l) \notin IpNetworks

C20_ParseRejects ==
    codec.pc \in {"parsed", "written"} /\ codec.from = "text" =>
        LET lines == TextLines(codec.text)
        IN  (\E i \in 1..Len(lines) : C20_BadLine(lines, i)) =>
                ~codec.parsed.ok /\ "cfg" \notin DOMAIN codec.parsed

\* parse_config has refused an Address that is no IP/CIDR.
C20_Witness ==
    /\ codec.pc = "parsed"
    /\ ~codec.parsed.ok
    /\ codec.parsed.err = "Invalid IP address"

\* ---------------------------------------------------------------------- C21
\* The lines of a text with their numbers: trimmed, the blank ones kept.
NumberedLines(text) == Trimmed(split(text, "\n"))

\* Line i is a section other than Interface and Peer, a line that is no
\* section, no comment and no assignment, or an assignment to a key its
\* section does not know.
C21_Faulty(lines, i) ==
    LET l == lines[i]
        section == SectionAt(lines, i)
    IN  /\ l # Empty
        /\ \/ IsSectionLine(l) /\ SectionName(l) \notin {<<"Interface">>, <<"Peer">>}
           \/ ~IsSectionLine(l) /\ ~IsCommentLine(l) /\ ~IsAssignment(l)
           \/ /\ IsAssignment(l)
              /\ \/ section = <<"Interface">> /\ KeyOf(l) \notin InterfaceKeys
                 \/ section = <<"Peer">> /\ KeyOf(l) \notin PeerKeys

C21_LineErrors ==
    {"Couldn't parse line", "Unexpected interface name",
     "Unexpected Interface configuration key", "Unexpected Peer configuration key"}

\* C21: a parse error for a bad line, an unknown key or an unknown section
\* carries the 1-based number (blank lines counted) and the text of the
\* first faulty line of the input.
C21_ErrorNamesLine ==
    (/\ codec.pc \in {"parsed", "written"}
     /\ codec.from = "text"
     /\ ~codec.parsed.ok
     /\ codec.parsed.err \in C21_LineErrors)
    => LET lines == NumberedLines(codec.text)
           faulty == {i \in 1..Len(lines) : C21_Faulty(lines, i)}
       IN  /\ faulty # {}
           /\ codec.parsed.n = Min(faulty)
           /\ codec.parsed.arg = lines[Min(faulty)]

\* ---------------------------------------------------------------------- C22
\* The value of the last PrivateKey assignment of the Interface sections.
C22_LastPrivateKey(lines) ==
    LET js == {j \in 1..Len(lines) :
                  /\ IsAssignment(lines[j])
                  /\ SectionAt(lines, j) = <<"Interface">>
                  /\ KeyOf(lines[j]) = <<"PrivateKey">>}
    IN  IF js = {} THEN None ELSE Some(ValueOf(lines[Max(js)]))

\* C22: a config parse_config returns has a public key exactly when it has
\* a private key, the private key is the last PrivateKey of the text and the
\* public key is derived from it; a text with a PrivateKey that no public
\* key is derived from yields an error.
C22_KeysDerived ==
    codec.pc \in {"parsed", "written"} /\ codec.from = "text" =>
        LET lines == TextLines(codec.text)
            iface == codec.parsed.cfg.interface
        IN  /\ codec.parsed.ok =>
                /\ is_some(iface.public_key) <=> is_some(iface.private_key)
                /\ iface.private_key = C22_LastPrivateKey(lines)
                /\ is_some(iface.private_key) =>
                       /\ iface.private_key[1] \in PrivateKeys
                       /\ iface.public_key = Some(<<"pub">> \o iface.private_key[1])
            /\ (\E j \in 1..Len(lines) :
                    /\ IsAssignment(lines[j])
                    /\ SectionAt(lines, j) = <<"Interface">>
                    /\ KeyOf(lines[j]) = <<"PrivateKey">>
                    /\ ValueOf(lines[j]) \notin PrivateKeys)
               => ~codec.parsed.ok

\* parse_config has returned a config for a text with two PrivateKey lines
\* of different keys.
C22_Witness ==
    /\ codec.pc = "parsed"
    /\ codec.from = "text"
    /\ codec.parsed.ok
    /\ codec.parsed.cfg.interface.public_key = Some(<<"pub", "priv2">>)
    /\ \E j \in 1..Len(TextLines(codec.text)) :
           TextLines(codec.text)[j] = <<"PrivateKey", " ", "=", " ", "priv">>

\* ---------------------------------------------------------------------- C23
\* Files of a VPN vendor, as tests::parses_protonvpn_1_conf has them: an
\* Interface section with a "# Key for" comment and comments of unknown
\* keys, and up to two Peer sections of server-name comments and a key.
ImportedInterfaces ==
    { << <<"[", "Interface", "]">>, <<"#", " ", "Key", " ", "for", " ", "TII">>,
         <<"#", " ", "Bouncing", " ", "=", " ", "4">>,
         <<"Address", " ", "=", " ", "ip", "/", "24">> >>,
      << <<"[", "Interface", "]">>, <<"#", " ", "Name", " ", "=", " ", "n">>,
         <<"#", " ", "Key", " ", "for", " ", "TII">>,
         <<"#", " ", "NAT-PMP", " ", "=", " ", "off">> >> }

ImportedPeerLines ==
    { <<"#", " ", "NL-FREE", "#", "241">>, <<"#", " ", "AT">>,
      <<"PublicKey", " ", "=", " ", "K">> }

ImportedPeers ==
    {<< <<"[", "Peer", "]">> >> \o lines :
        lines \in SeqsUpTo(ImportedPeerLines, MaxLines)}

ImportedTexts ==
    {unlines(i) : i \in ImportedInterfaces}
    \cup {unlines(i \o p) : i \in ImportedInterfaces, p \in ImportedPeers}
    \cup {unlines(i \o p \o q) :
             i \in ImportedInterfaces, p \in ImportedPeers, q \in ImportedPeers}

ImportInit ==
    /\ codec \in
          {[pc |-> "text", from |-> "import", c |-> DefaultConfig, text |-> text,
            parsed |-> NoParse, again |-> Empty] : text \in ImportedTexts}
    /\ routing = NoCall
    /\ loading = NoCall
    /\ scan = NoCall
    /\ save = NoCall
    /\ app = NoCall
    /\ startup = NoCall
    /\ editor = NoCall
    /\ NoTunnel

SpecImport == ImportInit /\ [][ParseConfig]_<<vars, calls>>

\* A comment without "=", and what follows its "#".
IsStandalone(l) == IsCommentLine(l) /\ ~\E i \in 1..Len(l) : l[i] = "="
CommentOf(l) == trim(Tail(l))

\* The name the comments of the Interface sections give: the last of the
\* "# Name = v" and "# Key for v" lines.
C23_InterfaceName(lines) ==
    LET js == {j \in 1..Len(lines) :
                  /\ IsCommentLine(lines[j])
                  /\ SectionAt(lines, j) = <<"Interface">>
                  /\ \/ ~IsStandalone(lines[j]) /\ KeyOf(CommentOf(lines[j])) = <<"Name">>
                     \/ /\ IsStandalone(lines[j])
                        /\ starts_with(CommentOf(lines[j]), <<"Key", " ", "for", " ">>)}
        l == CommentOf(lines[Max(js)])
    IN  IF js = {} THEN None
        ELSE IF IsStandalone(lines[Max(js)]) THEN Some(SubSeq(l, 5, Len(l)))
        ELSE Some(ValueOf(l))

\* The name the comments of the Peer section that opens at line i give: its
\* first standalone comment, while no "# Name = v" of the section is there.
C23_PeerName(lines, i) ==
    LET js == {j \in (i + 1)..SectionEnd(lines, i) : IsStandalone(lines[j])}
    IN  IF js = {} THEN None ELSE Some(CommentOf(lines[Min(js)]))

\* C23: of an imported file the interface name is the NAME of its
\* "# Key for NAME" comment, comments of unknown keys raise no error, and
\* the peer of each Peer section has the section's first standalone comment
\* as its name, whatever comments follow in this or another section.
C23_ImportHeuristics ==
    codec.pc = "parsed" /\ codec.from = "import" =>
        LET lines == TextLines(codec.text)
            sections == C18_PeerSections(lines)
            peers == codec.parsed.cfg.peers
        IN  /\ codec.parsed.ok
            /\ codec.parsed.cfg.interface.name = C23_InterfaceName(lines)
            /\ Len(peers) = Len(sections)
            /\ \A k \in 1..Len(sections) :
                   peers[k].name = C23_PeerName(lines, sections[k])

\* ================================================== the routing scripts
BindIfacePlaceholder == <<"%bindIface">>

contains(s, p) == \E i \in 1..(Len(s) - Len(p) + 1) : SubSeq(s, i, i + Len(p) - 1) = p

\* RoutingHooks as parse_routing_keywords builds it: has_bind_interface is
\* set when a command of PreUp, PostUp, PreDown or PostDown holds the
\* placeholder.
RoutingHooks(pre_up, post_up, pre_down, post_down, fwmark) ==
    [pre_up |-> pre_up, post_up |-> post_up, pre_down |-> pre_down,
     post_down |-> post_down, fwmark |-> fwmark,
     has_bind_interface |->
        \E d \in {pre_up, post_up, pre_down, post_down} :
            is_some(d) /\ contains(d[1], BindIfacePlaceholder)]

\* RoutingScripts: the name and the hooks (path and content are not read by
\* the validators).
RoutingScripts(name, routing_hooks) == [name |-> name, routing_hooks |-> routing_hooks]

\* anyhow::Result<()> of the validators: the message and what it names.
Valid == [ok |-> TRUE, err |-> "", arg |-> Empty]
Invalid(msg, arg) == [ok |-> FALSE, err |-> msg, arg |-> arg]

\* A check_field that lets a field pass when only one side has it.
check_field_lenient(cfg, cfg_val, template_val, use_bind, name) ==
    IF is_some(cfg_val) /\ is_some(template_val)
          /\ (IF use_bind /\ is_some(cfg.interface.binding_iface)
              THEN replace(cfg_val[1], cfg.interface.binding_iface[1], BindIfacePlaceholder)
              ELSE cfg_val[1]) # template_val[1]
    THEN Invalid("script does not match the expected template.", name)
    ELSE Valid

\* The closure check_field of validate_assign_routing_script.
check_field(cfg, cfg_val, template_val, use_bind, name) ==
    IF is_some(cfg_val) /\ is_some(template_val)
    THEN LET normalized ==
                 IF use_bind
                 THEN IF is_some(cfg.interface.binding_iface)
                      THEN replace(cfg_val[1], cfg.interface.binding_iface[1],
                                   BindIfacePlaceholder)
                      ELSE cfg_val[1]
                 ELSE cfg_val[1]
         IN  IF normalized # template_val[1]
             THEN Invalid("script does not match the expected template.", name)
             ELSE Valid
    ELSE IF is_none(cfg_val) /\ is_none(template_val)
    THEN Valid
    ELSE Invalid("scripts are not identical", name)

\* The five calls of check_field, in their order, each with use_bind.
checked_fields ==
    << <<"pre_up", TRUE>>, <<"post_up", TRUE>>, <<"pre_down", TRUE>>,
       <<"post_down", TRUE>>, <<"fwmark", FALSE>> >>

\* check_field(..)?, one after the other: the first error ends them.
RECURSIVE check_fields(_, _, _)
check_fields(cfg, script, fields) ==
    IF fields = <<>> THEN Valid
    ELSE LET f == Head(fields)
             r == check_field(cfg, cfg.interface[f[1]], script.routing_hooks[f[1]],
                              f[2], f[1])
         IN  IF ~r.ok THEN r ELSE check_fields(cfg, script, Tail(fields))

\* An assignment that also drops a binding_iface the script does not use.
assign_dropping_bind_iface(cfg, script) ==
    [cfg EXCEPT !.interface.has_script_bind_iface = script.routing_hooks.has_bind_interface,
                !.interface.binding_iface =
                    IF script.routing_hooks.has_bind_interface THEN @ ELSE None]

\* cfg.interface.has_script_bind_iface = script.routing_hooks.has_bind_interface
assign_has_script_bind_iface(cfg, script) ==
    [cfg EXCEPT !.interface.has_script_bind_iface = script.routing_hooks.has_bind_interface]

\* validate_assign_routing_script: the result, and cfg after the call.
validate_assign_routing_script(scripts, cfg) ==
    LET script_name == cfg.interface.routing_script_name
        found == {k \in 1..Len(scripts) : scripts[k].name = script_name[1]}
        script == scripts[CHOOSE k \in found : \A j \in found : k <= j]
        checked == check_fields(cfg, script, checked_fields)
    IN  IF is_none(script_name) THEN [result |-> Valid, cfg |-> cfg]
        ELSE IF found = {}
        THEN [result |-> Invalid("is not available or valid. Please select again from the menu.",
                                 script_name[1]),
              cfg |-> cfg]
        ELSE IF ~checked.ok THEN [result |-> checked, cfg |-> cfg]
        ELSE [result |-> Valid, cfg |-> assign_has_script_bind_iface(cfg, script)]

\* validate_binding_iface
validate_binding_iface(binding_ifaces, cfg) ==
    IF is_some(cfg.interface.binding_iface)
          /\ cfg.interface.binding_iface[1] \notin binding_ifaces
    THEN Invalid("Invalid binding interface", cfg.interface.binding_iface[1])
    ELSE Valid

\* A reset that keeps the name of the routing script.
reset_interface_hooks_keeping_name(cfg) ==
    [cfg EXCEPT !.interface.binding_iface = None,
                !.interface.pre_up = None, !.interface.pre_down = None,
                !.interface.post_up = None, !.interface.post_down = None,
                !.interface.fwmark = None,
                !.interface.has_script_bind_iface = FALSE]

\* A reset that forgets the script and the binding interface and leaves the
\* hooks and the mark.
reset_interface_hooks_keeping_hooks(cfg) ==
    [cfg EXCEPT !.interface.binding_iface = None,
                !.interface.routing_script_name = None,
                !.interface.has_script_bind_iface = FALSE]

\* reset_interface_hooks
reset_interface_hooks(cfg) ==
    [cfg EXCEPT !.interface =
        [name |-> cfg.interface.name, address |-> cfg.interface.address,
         listen_port |-> cfg.interface.listen_port,
         private_key |-> cfg.interface.private_key,
         public_key |-> cfg.interface.public_key,
         dns |-> cfg.interface.dns, table |-> cfg.interface.table,
         mtu |-> cfg.interface.mtu,
         binding_iface |-> None, routing_script_name |-> None,
         pre_up |-> None, pre_down |-> None, post_up |-> None,
         post_down |-> None, fwmark |-> None, has_script_bind_iface |-> FALSE]]

\* OverviewInput::SetRoutingScript on the interface the editor shows: the
\* interface after the message, and the error it emits when the script
\* needs a binding interface and none is selected.
replace_bindiface(field, bind_iface) ==
    IF is_some(field)
    THEN Some(replace(field[1], BindIfacePlaceholder, bind_iface))
    ELSE None

SetRoutingScript(interface, selected_script) ==
    IF is_some(selected_script)
    THEN LET script == selected_script[1]
             hooks == script.routing_hooks
             named == [interface EXCEPT
                          !.has_script_bind_iface = hooks.has_bind_interface,
                          !.routing_script_name = Some(script.name),
                          !.fwmark = hooks.fwmark]
             bind_iface == interface.binding_iface
         IN  IF hooks.has_bind_interface
             THEN IF is_none(bind_iface) \/ bind_iface[1] = Empty
                  THEN [interface |-> named, error |-> TRUE]
                  ELSE [interface |->
                           [named EXCEPT
                               !.pre_up = replace_bindiface(hooks.pre_up, bind_iface[1]),
                               !.pre_down = replace_bindiface(hooks.pre_down, bind_iface[1]),
                               !.post_up = replace_bindiface(hooks.post_up, bind_iface[1]),
                               !.post_down = replace_bindiface(hooks.post_down, bind_iface[1])],
                        error |-> FALSE]
             ELSE [interface |->
                      [named EXCEPT !.pre_up = hooks.pre_up, !.pre_down = hooks.pre_down,
                                    !.post_up = hooks.post_up,
                                    !.post_down = hooks.post_down],
                   error |-> FALSE]
    ELSE [interface |->
             [interface EXCEPT !.pre_up = None, !.pre_down = None, !.post_up = None,
                               !.post_down = None, !.routing_script_name = None,
                               !.fwmark = None, !.has_script_bind_iface = FALSE],
          error |-> FALSE]

\* ------------------------------------------- the validators' callers
\* Directives: without the placeholder, with it, with it and the name of an
\* interface, with the name of an interface alone.
PlainDirective == <<"ip", " ", "a">>
BindDirective == <<"ip", " ", "dev", " ", "%bindIface">>
MixedDirective == <<"ip", " ", "eth0", " ", "%bindIface">>
StaticDirective == <<"iptables", " ", "eth0">>

\* Scripts the scan can return.
Scripts ==
    { RoutingScripts(<<"plain">>,
                     RoutingHooks(Some(PlainDirective), None, None, None, Some(<<"51">>))),
      RoutingScripts(<<"bind">>,
                     RoutingHooks(Some(BindDirective), Some(PlainDirective), None, None, None)),
      RoutingScripts(<<"mixed">>,
                     RoutingHooks(None, Some(MixedDirective), None, None, None)),
      RoutingScripts(<<"static">>,
                     RoutingHooks(None, None, Some(StaticDirective), None, None)) }

\* The scanned list holds each file once.
ScriptLists ==
    {l \in SeqsUpTo(Scripts, MaxScripts) :
        \A i \in 1..Len(l) : \A j \in 1..Len(l) : i # j => l[i] # l[j]}

BindingIfaces == {<<"eth0">>, <<"wlan0">>}

\* Interfaces of configs as they are loaded from a file.
RoutingInterfaces ==
    {[DefaultInterface EXCEPT !.name = Some(<<"wg0">>),
                              !.routing_script_name = routing_script_name,
                              !.pre_up = pre_up, !.post_up = post_up,
                              !.pre_down = pre_down, !.fwmark = fwmark,
                              !.binding_iface = binding_iface] :
        routing_script_name \in
            {None, Some(<<"plain">>), Some(<<"bind">>), Some(<<"static">>)},
        pre_up \in {None, Some(PlainDirective), Some(BindDirective),
                    Some(<<"ip", " ", "dev", " ", "eth0">>)},
        post_up \in {None, Some(PlainDirective)},
        pre_down \in {None, Some(StaticDirective)},
        fwmark \in {None, Some(<<"51">>), Some(<<"52">>)},
        binding_iface \in {None} \cup {Some(b) : b \in BindingIfaces}}

\* Interfaces the editor shows before a script is selected.
EditedInterfaces ==
    {[DefaultInterface EXCEPT !.name = Some(<<"wg0">>),
                              !.binding_iface = binding_iface] :
        binding_iface \in {None, Some(Empty)} \cup {Some(b) : b \in BindingIfaces}}

RoutingCall(pc, scripts, interface) ==
    [pc |-> pc, from |-> pc, scripts |-> scripts,
     cfg |-> WireguardConfig(interface, <<>>),
     before |-> WireguardConfig(interface, <<>>),
     selected |-> None, error |-> FALSE, result |-> Valid]

RoutingInit ==
    /\ routing \in
          {RoutingCall("loaded", scripts, interface) :
              scripts \in ScriptLists, interface \in RoutingInterfaces}
          \cup
          {RoutingCall("editing", scripts, interface) :
              scripts \in ScriptLists, interface \in EditedInterfaces}
    /\ codec = NoCall
    /\ loading = NoCall
    /\ scan = NoCall
    /\ save = NoCall
    /\ app = NoCall
    /\ startup = NoCall
    /\ editor = NoCall
    /\ NoTunnel

\* The user selects a script of the list, or none, in the editor.
SelectRoutingScript ==
    /\ routing.pc = "editing"
    /\ \E selected \in {None} \cup {Some(routing.scripts[k]) : k \in 1..Len(routing.scripts)} :
          LET set == SetRoutingScript(routing.cfg.interface, selected)
          IN  routing' = [routing EXCEPT !.pc = "attached",
                                         !.selected = selected,
                                         !.error = set.error,
                                         !.cfg.interface = set.interface]
    /\ UNCHANGED <<vars, codec, loading, scan, save, app, startup, editor>>

\* validate_assign_routing_script(&scripts, &mut cfg)
ValidateAssign ==
    /\ routing.pc \in {"loaded", "attached"}
    /\ LET call == validate_assign_routing_script(routing.scripts, routing.cfg)
       IN  routing' = [routing EXCEPT !.pc = "validated",
                                      !.before = routing.cfg,
                                      !.result = call.result,
                                      !.cfg = call.cfg]
    /\ UNCHANGED <<vars, codec, loading, scan, save, app, startup, editor>>

RoutingNext == SelectRoutingScript \/ ValidateAssign

SpecRouting == RoutingInit /\ [][RoutingNext]_<<vars, calls>>

\* ------------------------------------------------ claims, the validators
\* The script of the list the config names, Empty-named when none does.
Named(scripts, cfg) ==
    {k \in 1..Len(scripts) : Some(scripts[k].name) = cfg.interface.routing_script_name}

HookFields == {"pre_up", "post_up", "pre_down", "post_down"}

\* ---------------------------------------------------------------------- C11
\* C11: for a config that names a script, validate_assign_routing_script
\* succeeds exactly when the list holds a script of that name and each of
\* pre_up, post_up, pre_down, post_down and fwmark is absent on both sides
\* or present on both and, normalised, equal; without the script the error
\* names the script, otherwise it names a field that does not agree.
C11_Normalized(cfg, f) ==
    IF f \in HookFields /\ is_some(cfg.interface.binding_iface)
    THEN replace(cfg.interface[f][1], cfg.interface.binding_iface[1], BindIfacePlaceholder)
    ELSE cfg.interface[f][1]

C11_Agrees(cfg, script, f) ==
    \/ is_none(cfg.interface[f]) /\ is_none(script.routing_hooks[f])
    \/ /\ is_some(cfg.interface[f])
       /\ is_some(script.routing_hooks[f])
       /\ C11_Normalized(cfg, f) = script.routing_hooks[f][1]

C11_ValidateChecks ==
    routing.pc = "validated" /\ is_some(routing.before.interface.routing_script_name) =>
        LET cfg == routing.before
            named == Named(routing.scripts, cfg)
            script == routing.scripts[Min(named)]
            fields == HookFields \cup {"fwmark"}
        IN  /\ routing.result.ok <=>
                  named # {} /\ \A f \in fields : C11_Agrees(cfg, script, f)
            /\ named = {} => routing.result.arg = cfg.interface.routing_script_name[1]
            /\ named # {} /\ ~routing.result.ok =>
                  /\ routing.result.arg \in fields
                  /\ ~C11_Agrees(cfg, script, routing.result.arg)

\* A config whose pre_up holds the interface in place of the placeholder has
\* passed the validation.
C11_Witness ==
    /\ routing.pc = "validated"
    /\ routing.result.ok
    /\ is_some(routing.before.interface.routing_script_name)
    /\ routing.before.interface.pre_up = Some(<<"ip", " ", "dev", " ", "eth0">>)

\* ---------------------------------------------------------------------- C12
\* C12: a config whose hooks the editor took from a script of the list, for
\* the binding interface selected (none, or one with a name), passes
\* validate_assign_routing_script with the same list.
C12_AttachThenValidate ==
    (/\ routing.pc = "validated"
     /\ routing.from = "editing"
     /\ is_some(routing.selected)
     /\ ~routing.error
     /\ routing.before.interface.binding_iface # Some(Empty))
    => routing.result.ok

\* ---------------------------------------------------------------------- C13
\* C13: validate_assign_routing_script leaves the config as it was when the
\* config names no script (and succeeds) and when it fails; when it succeeds
\* for a named script it sets has_script_bind_iface to the script's
\* has_bind_interface and nothing else.
C13_ValidateFrame ==
    routing.pc = "validated" =>
        LET before == routing.before
            name == before.interface.routing_script_name
            script == routing.scripts[Min(Named(routing.scripts, before))]
        IN  /\ is_none(name) => routing.result.ok /\ routing.cfg = before
            /\ ~routing.result.ok => routing.cfg = before
            /\ routing.result.ok /\ is_some(name) =>
                  routing.cfg =
                     [before EXCEPT !.interface.has_script_bind_iface =
                                        script.routing_hooks.has_bind_interface]

\* A validation has succeeded and changed has_script_bind_iface.
C13_Witness ==
    /\ routing.pc = "validated"
    /\ routing.result.ok
    /\ routing.cfg # routing.before
    /\ is_some(routing.before.interface.binding_iface)


-----------------------------------------------------------------------------
\* The initial loading (main.rs perform_initial_loading): the files of the
\* configuration directory are read and parsed, each config is checked
\* against the binding interfaces and routing scripts found, a config that
\* fails is reset and written back, and the configs are handed to the
\* application with InitSyncFinished.

\* File stems of the configuration directory; "wg0.conf" has the stem "wg0".
Stems == {<<"wg0">>, <<"wg1">>}

\* fs::read_dir yields the entries in no particular order.
ReadDirOrders(dir) ==
    {order \in SeqsUpTo(Stems, Cardinality(Stems)) :
        /\ \A i \in 1..Len(order) : \A j \in 1..Len(order) :
               i # j => order[i] # order[j]
        /\ {order[i] : i \in 1..Len(order)} = {f \in Stems : is_some(dir[f])}}

\* What can fail for an entry of the directory: the entry itself (`entry?`),
\* file.file_type()?, or fs::read_to_string.
EntryFaults == {"none", "entry", "file_type", "read"}

RECURSIVE load_existing_configurations(_, _, _)
\* load_existing_configurations over the entries in the order read: the
\* configs parsed, the stem of the file each one came from, and one message
\* per file that cannot be read or does not parse, with the path it names;
\* a `?` that fails returns the error alone.
load_existing_configurations(dir, faults, order) ==
    IF order = <<>> THEN [ok |-> TRUE, cfgs |-> <<>>, files |-> <<>>, errs |-> <<>>]
    ELSE LET rest == load_existing_configurations(dir, faults, Tail(order))
             file_stem == Head(order)
             parsed == parse_config(dir[file_stem][1])
             cfg == IF parsed.ok /\ is_none(parsed.cfg.interface.name)
                    THEN [parsed.cfg EXCEPT !.interface.name = Some(file_stem)]
                    ELSE parsed.cfg
         IN  IF faults[file_stem] \in {"entry", "file_type"} \/ ~rest.ok
             THEN [ok |-> FALSE, cfgs |-> <<>>, files |-> <<>>, errs |-> <<>>]
             ELSE IF faults[file_stem] = "read"
             THEN [rest EXCEPT !.errs = <<[err |-> "Could not read file",
                                           file |-> file_stem]>> \o @]
             ELSE IF parsed.ok
             THEN [rest EXCEPT !.cfgs = <<cfg>> \o @, !.files = <<file_stem>> \o @]
             ELSE [rest EXCEPT !.errs = <<[err |-> "Could not parse file",
                                           file |-> file_stem]>> \o @]

\* One turn of `for mut cfg in cfgs`, up to the write: the messages pushed,
\* needs_save, and the config as it is pushed to loaded_configs.
reconcile(binding_ifaces, scripts, cfg) ==
    LET bound == validate_binding_iface(binding_ifaces, cfg)
        assigned == validate_assign_routing_script(scripts, cfg)
        needs_save == ~bound.ok \/ ~assigned.result.ok
    IN  [errs |-> (IF bound.ok THEN <<>> ELSE <<bound.err>>)
                  \o (IF assigned.result.ok THEN <<>> ELSE <<assigned.result.err>>),
         needs_save |-> needs_save,
         cfg |-> IF needs_save THEN reset_interface_hooks(assigned.cfg)
                 ELSE assigned.cfg]

\* What write_config_to_path can leave at the path: the content, the file as
\* it was (open fails), or no file (a later step fails and cleanup removes it).
WriteOutcomes == {"written", "open failed", "removed"}

write_config_to_path(dir, cfg, path, outcome) ==
    CASE outcome = "written" -> [dir EXCEPT ![path] = Some(write_config(cfg))]
      [] outcome = "open failed" -> dir
      [] outcome = "removed" -> [dir EXCEPT ![path] = None]

\* The routing scripts and binding interfaces the loading finds.
LoadingScripts ==
    << RoutingScripts(<<"plain">>,
                      RoutingHooks(Some(PlainDirective), None, None, None, None)),
       RoutingScripts(<<"bind">>,
                      RoutingHooks(Some(BindDirective), None, None, None, None)) >>

\* The routing fields of the files of the directory: no script; a script
\* with its hook, with and without the placeholder; a script that is gone;
\* a hook without a script; a binding interface that is gone; a hook that
\* differs from its script.
Routed(routing_script_name, pre_up, binding_iface) ==
    [routing_script_name |-> routing_script_name, pre_up |-> pre_up,
     binding_iface |-> binding_iface]

LoadingRouting ==
    { Routed(None, None, None),
      Routed(Some(<<"plain">>), Some(PlainDirective), None),
      Routed(Some(<<"bind">>), Some(<<"ip", " ", "dev", " ", "eth0">>), Some(<<"eth0">>)),
      Routed(Some(<<"gone">>), Some(PlainDirective), None),
      Routed(None, Some(PlainDirective), None),
      Routed(Some(<<"plain">>), Some(PlainDirective), Some(<<"usb0">>)),
      Routed(Some(<<"plain">>), Some(<<"ip", " ", "dev", " ", "eth0">>), None) }

\* Files of the directory: configs as write_config leaves them, with or
\* without a name, and one file that is no config.
LoadingInterfaces ==
    {[DefaultInterface EXCEPT !.name = name,
                              !.address = Some(<<"ip", "/", "24">>),
                              !.private_key = Some(<<"priv">>),
                              !.routing_script_name = r.routing_script_name,
                              !.pre_up = r.pre_up,
                              !.binding_iface = r.binding_iface,
                              !.has_script_bind_iface = is_some(r.binding_iface)] :
        name \in {None} \cup {Some(f) : f \in Stems}, r \in LoadingRouting}

LoadingTexts ==
    {write_config(WireguardConfig(i, <<[DefaultPeer EXCEPT !.public_key = Some(<<"K">>)]>>)) :
        i \in LoadingInterfaces}
    \cup {<<"garbage">>}

LoadingCall(dir, faults) ==
    [pc |-> "start", disk |-> dir, dir |-> dir, faults |-> faults,
     loaded |-> TRUE, cfgs |-> <<>>, files |-> <<>>, load_errors |-> <<>>,
     needs_save |-> <<>>, loaded_configs |-> <<>>, initial_errors |-> <<>>]

LoadingInit ==
    /\ loading \in {LoadingCall(dir, [f \in Stems |-> "none"]) :
                       dir \in [Stems -> {None} \cup {Some(t) : t \in LoadingTexts}]}
    /\ codec = NoCall
    /\ routing = NoCall
    /\ scan = NoCall
    /\ save = NoCall
    /\ app = NoCall
    /\ startup = NoCall
    /\ editor = NoCall
    /\ NoTunnel

\* perform_initial_loading up to the loop: the directory is read.
LoadExistingConfigurations ==
    /\ loading.pc = "start"
    /\ \E order \in ReadDirOrders(loading.dir) :
          LET read == load_existing_configurations(loading.dir, loading.faults, order)
          IN  loading' =
                [loading EXCEPT
                    !.pc = "loop", !.loaded = read.ok, !.cfgs = read.cfgs,
                    !.files = read.files, !.load_errors = read.errs,
                    !.initial_errors =
                        IF read.ok THEN [i \in 1..Len(read.errs) |-> read.errs[i].err]
                        ELSE <<"Could not load existing configurations">>]
    /\ UNCHANGED <<vars, codec, routing, scan, save, app, startup, editor>>

\* One turn of the loop over the configs read.
ReconcileConfig ==
    /\ loading.pc = "loop"
    /\ Len(loading.loaded_configs) < Len(loading.cfgs)
    /\ LET r == reconcile(BindingIfaces, LoadingScripts,
                          loading.cfgs[Len(loading.loaded_configs) + 1])
           name == r.cfg.interface.name
       IN  \E outcome \in WriteOutcomes :
              /\ ~(r.needs_save /\ is_some(name)) => outcome = "written"
              /\ loading' =
                   [loading EXCEPT
                       !.dir = IF r.needs_save /\ is_some(name)
                               THEN write_config_to_path(@, r.cfg, name[1], outcome)
                               ELSE @,
                       !.needs_save = Append(@, r.needs_save),
                       !.loaded_configs = Append(@, r.cfg),
                       !.initial_errors =
                           @ \o r.errs
                             \o (IF outcome = "written" THEN <<>>
                                 ELSE <<"Failed to update">>)]
    /\ UNCHANGED <<vars, codec, routing, scan, save, app, startup, editor>>

\* The loop is over: the configs are handed to the application.
InitSyncFinished ==
    /\ loading.pc = "loop"
    /\ Len(loading.loaded_configs) = Len(loading.cfgs)
    /\ loading' = [loading EXCEPT !.pc = "finished"]
    /\ UNCHANGED <<vars, codec, routing, scan, save, app, startup, editor>>

LoadingNext == LoadExistingConfigurations \/ ReconcileConfig \/ InitSyncFinished

SpecLoading == LoadingInit /\ [][LoadingNext]_<<vars, calls>>

\* The directory with entries that fail: a file that parses, one that does
\* not, and for each what fails when it is reached.
LoadDirTexts ==
    { write_config(WireguardConfig(
          [DefaultInterface EXCEPT !.address = Some(<<"ip", "/", "24">>)], <<>>)),
      write_config(WireguardConfig(
          [DefaultInterface EXCEPT !.name = Some(<<"home">>)], <<>>)),
      <<"garbage">> }

LoadDirInit ==
    /\ \E dir \in [Stems -> {None} \cup {Some(t) : t \in LoadDirTexts}] :
          \E faults \in [Stems -> EntryFaults] :
              /\ \A f \in Stems : is_none(dir[f]) => faults[f] = "none"
              /\ loading = LoadingCall(dir, faults)
    /\ codec = NoCall
    /\ routing = NoCall
    /\ scan = NoCall
    /\ save = NoCall
    /\ app = NoCall
    /\ startup = NoCall
    /\ editor = NoCall
    /\ NoTunnel

SpecLoadDir == LoadDirInit /\ [][LoadingNext]_<<vars, calls>>

\* The claims about the initial loading.

\* The k-th config read fails one of the two validators.
FailsValidation(k) ==
    \/ ~validate_binding_iface(BindingIfaces, loading.cfgs[k]).ok
    \/ ~validate_assign_routing_script(LoadingScripts, loading.cfgs[k]).result.ok

RoutingFields ==
    {"binding_iface", "routing_script_name", "pre_up", "post_up", "pre_down",
     "post_down", "fwmark"}

KeptFields ==
    {"name", "address", "listen_port", "private_key", "public_key", "dns",
     "table", "mtu"}

\* C14: a config that fails validate_binding_iface or
\* validate_assign_routing_script is handed to the application with its
\* routing and binding fields absent and has_script_bind_iface false, its
\* other interface fields and its peers as parsed; a config that passes both
\* is handed on as parsed, has_script_bind_iface apart.
C14_Handed(k) ==
    LET parsed == loading.cfgs[k]
        handed == loading.loaded_configs[k]
    IN  IF FailsValidation(k)
        THEN /\ \A f \in RoutingFields : handed.interface[f] = None
             /\ handed.interface.has_script_bind_iface = FALSE
             /\ \A f \in KeptFields : handed.interface[f] = parsed.interface[f]
             /\ handed.peers = parsed.peers
        ELSE /\ \A f \in RoutingFields \cup KeptFields :
                    handed.interface[f] = parsed.interface[f]
             /\ handed.peers = parsed.peers

C14_ResetOnFailure ==
    \A k \in 1..Len(loading.loaded_configs) : C14_Handed(k)

\* The loading has finished with two configs, one that failed validation
\* with a hook, an address and a peer in its file, and one that passed and
\* had has_script_bind_iface set.
C14_Witness ==
    /\ loading.pc = "finished"
    /\ \E k \in 1..Len(loading.loaded_configs) :
          /\ FailsValidation(k)
          /\ is_some(loading.cfgs[k].interface.pre_up)
          /\ is_some(loading.cfgs[k].interface.address)
          /\ loading.cfgs[k].peers # <<>>
    /\ \E k \in 1..Len(loading.loaded_configs) :
          /\ ~FailsValidation(k)
          /\ loading.loaded_configs[k].interface.has_script_bind_iface

\* C15: when the loading has finished without a write error, every file a
\* failing config was read from holds the serialization of the reset
\* config, and read again it fails no validator.
C15_Healed(k) ==
    LET file == loading.dir[loading.files[k]]
        again == parse_config(file[1])
    IN  /\ is_some(file)
        /\ file[1] = write_config(loading.loaded_configs[k])
        /\ again.ok
        /\ ~reconcile(BindingIfaces, LoadingScripts, again.cfg).needs_save

C15_SelfHealing ==
    (/\ loading.pc = "finished"
     /\ \A e \in 1..Len(loading.initial_errors) :
            loading.initial_errors[e] # "Failed to update")
    => \A k \in 1..Len(loading.loaded_configs) :
           loading.needs_save[k] => C15_Healed(k)

\* C16: a config handed to the application has no hook and no fwmark, or
\* names a script of the list whose directives are its hooks.
C16_HooksKnown(cfg) ==
    \/ \A f \in {"pre_up", "post_up", "pre_down", "post_down", "fwmark"} :
           cfg.interface[f] = None
    \/ /\ is_some(cfg.interface.routing_script_name)
       /\ \E i \in 1..Len(LoadingScripts) :
              LoadingScripts[i].name = cfg.interface.routing_script_name[1]
       /\ validate_assign_routing_script(LoadingScripts, cfg).result.ok

C16_NoUnknownHooks ==
    loading.pc = "finished"
    => \A k \in 1..Len(loading.loaded_configs) :
           C16_HooksKnown(loading.loaded_configs[k])


\* The configs load_existing_configurations returned for a file, and the
\* messages of its report that name the file.
C28_Returned(f) == {k \in 1..Len(loading.files) : loading.files[k] = f}
C28_Reported(f) == {k \in 1..Len(loading.load_errors) : loading.load_errors[k].file = f}

\* C28: after the directory is loaded every .conf file has either its
\* parsed config returned, the name defaulted to the stem, or a message of
\* the report naming it, whatever fails for the other entries.
C28_LoadCollects ==
    loading.pc \in {"loop", "finished"} =>
        \A f \in Stems :
            is_some(loading.disk[f]) =>
                LET parsed == parse_config(loading.disk[f][1])
                    good == loading.faults[f] = "none" /\ parsed.ok
                IN  /\ Cardinality(C28_Returned(f)) + Cardinality(C28_Reported(f)) = 1
                    /\ good =>
                          \E k \in C28_Returned(f) :
                              loading.cfgs[k] =
                                  IF is_none(parsed.cfg.interface.name)
                                  THEN [parsed.cfg EXCEPT !.interface.name = Some(f)]
                                  ELSE parsed.cfg

-----------------------------------------------------------------------------
\* The scan of the routing scripts (config.rs parse_routing_keywords,
\* extract_scripts_metadata).

\* RoutingKeyword::from_str
RoutingKeywords ==
    {<<"PreUp">>, <<"PostUp">>, <<"PreDown">>, <<"PostDown">>, <<"FwMark">>}

\* Words that begin with the letters "iptables" or "ip6tables".
IptablesWords == {"iptables", "iptables-save", "ip6tables"}

\* A check that also takes a command that is the word "ip" alone or that
\* begins with a word beginning with "ip".
command_allowed_by_first_word(cmd) ==
    Head(cmd) \in IptablesWords \cup {"ip", "ipset"}

\* cmd.starts_with("iptables") || cmd.starts_with("ip ") ||
\* cmd.starts_with("ip6tables")
command_allowed(cmd) ==
    \/ Head(cmd) \in IptablesWords
    \/ starts_with(cmd, <<"ip", " ">>)

\* cmds_raw.split(';').map(trim).filter(not empty)
command_parts(cmds_raw) ==
    SelectSeq(Trimmed(split(trim(cmds_raw), ";")), LAMBDA c : c # Empty)

\* parts.join("; ")
RECURSIVE join(_)
join(parts) ==
    IF Len(parts) = 1 THEN Head(parts)
    ELSE Head(parts) \o <<";", " ">> \o join(Tail(parts))

\* anyhow::Result<RoutingHooks>
HooksErr(msg, keyword, arg, script_name) ==
    [ok |-> FALSE, err |-> msg, keyword |-> keyword, arg |-> arg,
     script |-> script_name]

\* The locals of parse_routing_keywords before the first line.
NoHooks ==
    [pre_up |-> None, post_up |-> None, pre_down |-> None, post_down |-> None,
     fwmark |-> None, has_bind_interface |-> FALSE]

\* The loop over the commands of a directive other than FwMark: the first
\* command that is not allowed, if any.
first_invalid_command(parts) ==
    LET bad == {i \in 1..Len(parts) : ~command_allowed(parts[i])}
    IN  IF bad = {} THEN None ELSE Some(parts[Min(bad)])

\* has_bind_interface after the loop over the commands of a directive
\* other than FwMark.
bind_interface_seen(has_bind_interface, parts) ==
    has_bind_interface
        \/ \E i \in 1..Len(parts) : contains(parts[i], BindIfacePlaceholder)

\* match keyword { .. => .. = Some(joined) }
assign_keyword(hooks, keyword, joined) ==
    CASE keyword = <<"PreUp">> -> [hooks EXCEPT !.pre_up = Some(joined)]
      [] keyword = <<"PostUp">> -> [hooks EXCEPT !.post_up = Some(joined)]
      [] keyword = <<"PreDown">> -> [hooks EXCEPT !.pre_down = Some(joined)]
      [] keyword = <<"PostDown">> -> [hooks EXCEPT !.post_down = Some(joined)]
      [] keyword = <<"FwMark">> -> [hooks EXCEPT !.fwmark = Some(joined)]

\* One turn of `for raw_line in content.lines()`.
routing_line(hooks, raw_line, script_name) ==
    LET line == trim(raw_line)
        kv == split_once(line, "=")
        keyword == trim(kv[1][1])
        parts == command_parts(kv[1][2])
        invalid == first_invalid_command(parts)
    IN  IF line = Empty \/ starts_with(line, <<"#">>) THEN Continue(hooks)
        ELSE IF is_none(kv)
        THEN Return_Err(HooksErr("Invalid syntax: missing '=' in line", Empty, line,
                                 script_name))
        ELSE IF keyword \notin RoutingKeywords
        THEN Return_Err(HooksErr("Unknown routing keyword", Empty, keyword, script_name))
        ELSE IF parts = <<>>
        THEN Return_Err(HooksErr("Empty command list", keyword, Empty, script_name))
        ELSE IF keyword # <<"FwMark">> /\ is_some(invalid)
        THEN Return_Err(HooksErr("Invalid command", keyword, invalid[1], script_name))
        ELSE Continue(assign_keyword(
                 [hooks EXCEPT !.has_bind_interface =
                     IF keyword # <<"FwMark">> THEN bind_interface_seen(@, parts)
                     ELSE @],
                 keyword, join(parts)))

\* A test that is also content with a FwMark.
no_hook_or_mark(hooks) ==
    /\ is_none(hooks.pre_up) /\ is_none(hooks.post_up)
    /\ is_none(hooks.pre_down) /\ is_none(hooks.post_down)
    /\ is_none(hooks.fwmark)

\* pre_up.is_none() && post_up.is_none() && pre_down.is_none() &&
\* post_down.is_none()
no_routing_keywords(hooks) ==
    /\ is_none(hooks.pre_up) /\ is_none(hooks.post_up)
    /\ is_none(hooks.pre_down) /\ is_none(hooks.post_down)

RECURSIVE routing_lines(_, _, _, _)
routing_lines(lines, i, hooks, script_name) ==
    IF i > Len(lines)
    THEN IF no_routing_keywords(hooks)
         THEN HooksErr("does not contain any routing keywords", Empty, Empty,
                       script_name)
         ELSE [ok |-> TRUE, hooks |-> hooks]
    ELSE LET turn == routing_line(hooks, lines[i], script_name)
         IN  IF turn.return THEN turn.e
             ELSE routing_lines(lines, i + 1, turn.st, script_name)

parse_routing_keywords(content, script_name) ==
    routing_lines(split(content, "\n"), 1, NoHooks, script_name)

\* Lines of script files: directives of one and of several commands, with
\* and without the placeholder, comments, and lines that are no directive.
ScriptLines ==
    { <<"PreUp", " ", "=", " ", "iptables", " ", "-A">>,
      <<"PreUp", "=", "ip", " ", "dev", " ", "%bindIface">>,
      <<"PostUp", " ", "=", " ", "ip", " ", "a", ";", " ", "iptables-save", ";">>,
      <<"PostUp", " ", "=", " ", "ip", " ", "a", ";", " ", "echo", " ", "x">>,
      <<"PostDown", " ", "=", " ", "ip">>,
      <<"PreDown", " ", "=", " ", ";", " ">>,
      <<"FwMark", " ", "=", " ", "51">>,
      <<"FwMark", " ", "=", " ", "%bindIface">>,
      <<"#", "PreUp", " ", "=", " ", "wrong">>,
      <<" ">>,
      <<"echo", " ", "hello">>,
      <<"FOO", " ", "=", " ", "bar">>,
      <<"preup", " ", "=", " ", "ip", " ", "a">> }

ScriptContents == {unlines(lines) : lines \in SeqsUpTo(ScriptLines, MaxLines)}

NotParsed == HooksErr("-", Empty, Empty, Empty)

ScriptsInit ==
    /\ scan \in {[pc |-> "content", name |-> <<"vpn">>, content |-> content,
                  result |-> NotParsed] : content \in ScriptContents}
    /\ codec = NoCall
    /\ routing = NoCall
    /\ loading = NoCall
    /\ save = NoCall
    /\ app = NoCall
    /\ startup = NoCall
    /\ editor = NoCall
    /\ NoTunnel

\* parse_routing_keywords(&content, &name)
ParseRoutingKeywords ==
    /\ scan.pc = "content"
    /\ scan' = [scan EXCEPT !.pc = "parsed",
                            !.result = parse_routing_keywords(scan.content, scan.name)]
    /\ UNCHANGED <<vars, codec, routing, loading, save, app, startup, editor>>

SpecScripts == ScriptsInit /\ [][ParseRoutingKeywords]_<<vars, calls>>

\* ----------------------------------------------------- claims, the scripts
\* The directives of a script as a reader sees them: the lines that are
\* neither blank nor comments.
ScriptDirectives(content) ==
    SelectSeq(Trimmed(split(content, "\n")), LAMBDA l : l # Empty /\ Head(l) # "#")

HasAssign(l) == \E i \in 1..Len(l) : l[i] = "="
CommandsOf(l) == command_parts(split_once(l, "=")[1][2])
UpDownKeywords == {<<"PreUp">>, <<"PostUp">>, <<"PreDown">>, <<"PostDown">>}

\* A command begins with iptables, ip6tables or "ip ".
C24_Allowed(cmd) ==
    \/ Head(cmd) \in {"iptables", "iptables-save", "ip6tables"}
    \/ Len(cmd) >= 2 /\ cmd[1] = "ip" /\ cmd[2] = " "

C24_BadCommands(l) ==
    IF HasAssign(l) /\ KeyOf(l) \in UpDownKeywords
    THEN {CommandsOf(l)[i] : i \in {j \in 1..Len(CommandsOf(l)) :
                                       ~C24_Allowed(CommandsOf(l)[j])}}
    ELSE {}

\* C24: a script with a PreUp, PostUp, PreDown or PostDown command that
\* does not begin with iptables, ip6tables or "ip " is rejected; the error
\* for such a command names its keyword, the command and the script; the
\* commands of the directives of an accepted script all begin so.
C24_CommandsChecked ==
    scan.pc = "parsed" /\ "content" \in DOMAIN scan =>
        LET ls == ScriptDirectives(scan.content)
            r == scan.result
        IN  /\ (\E i \in 1..Len(ls) : C24_BadCommands(ls[i]) # {}) => ~r.ok
            /\ ~r.ok /\ r.err = "Invalid command" =>
                   /\ r.script = scan.name
                   /\ \E i \in 1..Len(ls) :
                          /\ HasAssign(ls[i])
                          /\ KeyOf(ls[i]) = r.keyword
                          /\ r.arg \in C24_BadCommands(ls[i])
            /\ r.ok =>
                   \A f \in {"pre_up", "post_up", "pre_down", "post_down"} :
                       is_some(r.hooks[f]) =>
                           \A i \in 1..Len(command_parts(r.hooks[f][1])) :
                               C24_Allowed(command_parts(r.hooks[f][1])[i])

\* A script whose second command is no iptables or ip command was rejected,
\* and the error names PostUp and the command.
C24_Witness ==
    /\ scan.pc = "parsed"
    /\ "content" \in DOMAIN scan
    /\ ~scan.result.ok
    /\ scan.result.err = "Invalid command"
    /\ scan.result.keyword = <<"PostUp">>
    /\ scan.result.arg = <<"echo", " ", "x">>

\* C25: for an accepted script has_bind_interface tells whether a
\* directive of the descriptor, fwmark included, holds the placeholder.
C25_BindFlag ==
    scan.pc = "parsed" /\ "content" \in DOMAIN scan /\ scan.result.ok =>
        (scan.result.hooks.has_bind_interface
            <=> \E f \in {"pre_up", "post_up", "pre_down", "post_down", "fwmark"} :
                    /\ is_some(scan.result.hooks[f])
                    /\ contains(scan.result.hooks[f][1], BindIfacePlaceholder))

\* A line that is no directive: no "=", a keyword that is none of the
\* five, or no command.
C26_BadLine(l) ==
    \/ ~HasAssign(l)
    \/ KeyOf(l) \notin RoutingKeywords
    \/ CommandsOf(l) = <<>>

\* C26: a script with a line that is no directive, or without any PreUp,
\* PostUp, PreDown or PostDown, is rejected with an error naming the script;
\* a script whose lines that are not blank and no comments are directives
\* of allowed commands, one of them an up or down directive, is accepted.
C26_ScriptRejected ==
    scan.pc = "parsed" /\ "content" \in DOMAIN scan =>
        LET ls == ScriptDirectives(scan.content)
            r == scan.result
            bad == \E i \in 1..Len(ls) : C26_BadLine(ls[i])
            none == \A i \in 1..Len(ls) : KeyOf(ls[i]) \notin UpDownKeywords
        IN  /\ bad \/ none => ~r.ok /\ r.script = scan.name /\ "hooks" \notin DOMAIN r
            /\ (~bad /\ ~none /\ \A i \in 1..Len(ls) : C24_BadCommands(ls[i]) = {})
                   => r.ok

\* A script of a FwMark and a comment only was rejected.
C26_Witness ==
    /\ scan.pc = "parsed"
    /\ "content" \in DOMAIN scan
    /\ ~scan.result.ok
    /\ scan.result.err = "does not contain any routing keywords"
    /\ \E i \in 1..Len(ScriptDirectives(scan.content)) :
           KeyOf(ScriptDirectives(scan.content)[i]) = <<"FwMark">>
    /\ Len(ScriptDirectives(scan.content)) < Len(split(scan.content, "\n")) - 1

\* ------------------------------------------------ extract_scripts_metadata
\* The entries of the scripts directory: a regular file has its length
\* compared with MAX_CONTENT_CHARS, may refuse to be read, and has a
\* content; a directory is no file.
ScriptNames == {<<"a.sh">>, <<"b.sh">>}

ScriptFile(oversized, readable, content) ==
    [is_file |-> TRUE, oversized |-> oversized, readable |-> readable,
     content |-> content]

ScriptEntries ==
    { ScriptFile(FALSE, TRUE, <<"PreUp", " ", "=", " ", "iptables", " ", "-A", "\n">>),
      ScriptFile(FALSE, TRUE, <<"echo", " ", "hello", "\n">>),
      ScriptFile(TRUE, TRUE, <<"PreUp", " ", "=", " ", "iptables", " ", "-A", "\n">>),
      ScriptFile(FALSE, FALSE, <<"PreUp", " ", "=", " ", "iptables", " ", "-A", "\n">>),
      [is_file |-> FALSE] }

\* get_script_paths: the regular files, in the order read_dir yields them.
get_script_paths(dir) ==
    {paths \in SeqsUpTo(ScriptNames, Cardinality(ScriptNames)) :
        /\ \A i \in 1..Len(paths) : \A j \in 1..Len(paths) :
               i # j => paths[i] # paths[j]
        /\ {paths[i] : i \in 1..Len(paths)}
               = {f \in ScriptNames : is_some(dir[f]) /\ dir[f][1].is_file}}

\* A turn of the loop that pushes nothing for a file it cannot read.
scan_script_silent(acc, name, file) ==
    IF file.oversized
    THEN [acc EXCEPT !.errors = Append(@, [err |-> "is too large, skipping",
                                           script |-> name])]
    ELSE IF ~file.readable THEN [acc EXCEPT !.read = @ \cup {name}]
    ELSE LET parsed == parse_routing_keywords(file.content, name)
         IN  IF parsed.ok
             THEN [acc EXCEPT !.read = @ \cup {name},
                              !.scripts = Append(@, RoutingScripts(name, parsed.hooks))]
             ELSE [acc EXCEPT !.read = @ \cup {name},
                              !.errors = Append(@, [err |-> parsed.err,
                                                    script |-> parsed.script])]

\* One turn of `for path in get_script_paths()`: scripts and errors after
\* it, and the files fs::read_to_string was called for.
scan_script(acc, name, file) ==
    IF file.oversized
    THEN [acc EXCEPT !.errors = Append(@, [err |-> "is too large, skipping",
                                           script |-> name])]
    ELSE IF ~file.readable
    THEN [acc EXCEPT !.read = @ \cup {name},
                     !.errors = Append(@, [err |-> "Failed to read script",
                                           script |-> name])]
    ELSE LET parsed == parse_routing_keywords(file.content, name)
         IN  IF parsed.ok
             THEN [acc EXCEPT !.read = @ \cup {name},
                              !.scripts = Append(@, RoutingScripts(name, parsed.hooks))]
             ELSE [acc EXCEPT !.read = @ \cup {name},
                              !.errors = Append(@, [err |-> parsed.err,
                                                    script |-> parsed.script])]

ScanInit ==
    /\ scan \in {[pc |-> "dir", dir |-> dir, paths |-> <<>>,
                  acc |-> [scripts |-> <<>>, errors |-> <<>>, read |-> {}],
                  result |-> [scripts |-> <<>>, errors |-> None]] :
                    dir \in [ScriptNames -> {None} \cup {Some(e) : e \in ScriptEntries}]}
    /\ codec = NoCall
    /\ routing = NoCall
    /\ loading = NoCall
    /\ save = NoCall
    /\ app = NoCall
    /\ startup = NoCall
    /\ editor = NoCall
    /\ NoTunnel

GetScriptPaths ==
    /\ scan.pc = "dir"
    /\ \E paths \in get_script_paths(scan.dir) :
          scan' = [scan EXCEPT !.pc = "loop", !.paths = paths]
    /\ UNCHANGED <<vars, codec, routing, loading, save, app, startup, editor>>

ScanScript ==
    /\ scan.pc = "loop"
    /\ scan.paths # <<>>
    /\ scan' = [scan EXCEPT
                   !.paths = Tail(@),
                   !.acc = scan_script(@, Head(scan.paths), scan.dir[Head(scan.paths)][1])]
    /\ UNCHANGED <<vars, codec, routing, loading, save, app, startup, editor>>

\* (scripts, combined_errors): errors.join("\n"), None when there is none.
ScanFinished ==
    /\ scan.pc = "loop"
    /\ scan.paths = <<>>
    /\ scan' = [scan EXCEPT
                   !.pc = "scanned",
                   !.result = [scripts |-> scan.acc.scripts,
                               errors |-> IF scan.acc.errors = <<>> THEN None
                                          ELSE Some(scan.acc.errors)]]
    /\ UNCHANGED <<vars, codec, routing, loading, save, app, startup, editor>>

ScanNext == GetScriptPaths \/ ScanScript \/ ScanFinished

SpecScan == ScanInit /\ [][ScanNext]_<<vars, calls>>

\* The descriptors returned for a file, and the errors of the report that
\* mention it.
C27_Descriptors(name) ==
    {i \in 1..Len(scan.result.scripts) : scan.result.scripts[i].name = name}
C27_Errors(name) ==
    IF is_none(scan.result.errors) THEN {}
    ELSE {i \in 1..Len(scan.result.errors[1]) : scan.result.errors[1][i].script = name}

-----------------------------------------------------------------------------
\* The write of a config file (config.rs write_config_to_path), step by
\* step: each step succeeds or fails; a failure of a step after the open
\* runs the cleanup closure before the error is returned.
SaveSteps == <<"parent", "open", "write_all", "sync_all", "get_uid_gid", "chown">>

\* The steps whose error goes through .inspect_err(cleanup).
CleanedSteps == {"write_all", "sync_all", "get_uid_gid", "chown"}

\* The file at the path: what it holds, whether that is on disk, and whose
\* it is; None when there is no file.
FileAt(content, synced, owner) ==
    [content |-> content, synced |-> synced, owner |-> owner]

\* The file after a step that succeeds: open creates the file for the
\* process or truncates the one that is there.
step_done(file, step, content) ==
    CASE step = "open" ->
           IF is_none(file) THEN Some(FileAt(Empty, FALSE, "process"))
           ELSE Some([file[1] EXCEPT !.content = Empty, !.synced = FALSE])
      [] step = "write_all" -> Some([file[1] EXCEPT !.content = content])
      [] step = "sync_all" -> Some([file[1] EXCEPT !.synced = TRUE])
      [] step = "chown" -> Some([file[1] EXCEPT !.owner = "configured"])
      [] OTHER -> file

\* The file after a step that fails: write_all has written the first k
\* symbols of the content.
step_failed(file, step, content, k) ==
    IF step = "write_all"
    THEN Some([file[1] EXCEPT !.content = SubSeq(content, 1, k)])
    ELSE file

\* A closure that leaves the file where it is.
cleanup_leaving_file(file) == file

\* cleanup: fs::remove_file(path)
cleanup(file) == None

SavedConfigs ==
    {WireguardConfig([DefaultInterface EXCEPT !.name = Some(<<"wg0">>),
                                              !.address = address],
                     peers) :
        address \in {None, Some(<<"ip", "/", "24">>)},
        peers \in {<<>>, <<[DefaultPeer EXCEPT !.public_key = Some(<<"K">>)]>>}}

FilesBefore ==
    {None, Some(FileAt(<<"old">>, TRUE, "configured")),
     Some(FileAt(<<"old">>, TRUE, "process"))}

SaveInit ==
    /\ save \in {[pc |-> "run", next |-> 1, before |-> file, file |-> file,
                  content |-> write_config(cfg), done |-> <<>>, failed |-> None] :
                    file \in FilesBefore, cfg \in SavedConfigs}
    /\ codec = NoCall
    /\ routing = NoCall
    /\ loading = NoCall
    /\ scan = NoCall
    /\ app = NoCall
    /\ startup = NoCall
    /\ editor = NoCall
    /\ NoTunnel

\* The next step succeeds; after the last one Ok(()) is returned.
StepSucceeds ==
    /\ save.pc = "run"
    /\ LET step == SaveSteps[save.next]
       IN  save' = [save EXCEPT
                       !.pc = IF save.next = Len(SaveSteps) THEN "ok" ELSE "run",
                       !.next = @ + 1,
                       !.file = step_done(@, step, save.content),
                       !.done = Append(@, step)]
    /\ UNCHANGED <<vars, codec, routing, loading, scan, app, startup, editor>>

\* The next step fails.
StepFails ==
    /\ save.pc = "run"
    /\ LET step == SaveSteps[save.next]
       IN  \E k \in 0..(Len(save.content) - 1) :
              /\ step # "write_all" => k = 0
              /\ save' = [save EXCEPT
                             !.pc = IF step \in CleanedSteps THEN "cleanup" ELSE "err",
                             !.file = step_failed(@, step, save.content, k),
                             !.failed = Some(step)]
    /\ UNCHANGED <<vars, codec, routing, loading, scan, app, startup, editor>>

\* inspect_err(cleanup), then the `?` returns the error.
Cleanup ==
    /\ save.pc = "cleanup"
    /\ save' = [save EXCEPT !.pc = "err", !.file = cleanup(@)]
    /\ UNCHANGED <<vars, codec, routing, loading, scan, app, startup, editor>>

SaveNext == StepSucceeds \/ StepFails \/ Cleanup

SpecSave == SaveInit /\ [][SaveNext]_<<vars, calls>>

C31_Delivered(c) ==
    cmds[c].pc = "done" /\ cmds'[c].pc # "done" /\ cmds[c].result.ok =>
        data'.active = (Last(cmds[c].log) = "up")

\* C31: after any successfully completed toggle the cached active flag is
\* true if and only if the last wg-quick action the toggle ran was "up",
\* whatever live state the toggle found.
C31_ActiveIsLastAction ==
    [][\A c \in Slots : C31_Delivered(c)]_vars

\* ------------------------------------------------ the tunnel list (main.rs)
\* App keeps the tunnels in a list; the messages of AppMsg change it.  The
\* oneshot commands a handler spawns (the write of an import, the write of a
\* save, the generation of a config) run beside the handlers and answer with
\* a message of their own.  Indexes are counted from 1 here.

\* Names typed, imported or found in the configs directory.
AppNames == Stems

Unknown == <<"unknown">>

\* TunnelData::new: the name is the config's or "unknown", the active flag
\* is the live state of the interface of that name.
TunnelData_new(config, saved, running) ==
    LET name == IF is_some(config.interface.name) THEN config.interface.name[1]
                ELSE Unknown
    IN  [name |-> name, config |-> config, active |-> name \in running,
         saved |-> saved]

\* TunnelData::path, as the stem of the file; None is the empty PathBuf.
TunnelData_path(tunnel) ==
    IF tunnel.name # Unknown THEN Some(tunnel.name) ELSE None

\* Tunnel::update_from.
update_from(tunnel, other) ==
    [tunnel EXCEPT !.active = other.active, !.config = other.config,
                   !.name = other.name, !.saved = TRUE]

\* A config of the list, by the one field the list looks at.
ConfigNamed(name) == [interface |-> [name |-> name]]

remove(s, i) == [j \in 1..(Len(s) - 1) |-> IF j < i THEN s[j] ELSE s[j + 1]]

\* tunnels.iter().position(|t| t.data.name == new_name): the first index
\* that has the name, as an Option.
position(tunnels, new_name) ==
    IF \E i \in 1..Len(tunnels) : tunnels[i].name = new_name
    THEN Some(CHOOSE i \in 1..Len(tunnels) :
                 /\ tunnels[i].name = new_name
                 /\ \A j \in 1..(i - 1) : tunnels[j].name # new_name)
    ELSE None

\* A oneshot command and the message it answers with.
Job(kind, config, idx, phase, tunnel) ==
    [kind |-> kind, config |-> config, idx |-> idx, phase |-> phase,
     tunnel |-> tunnel]

\* The commands after the row at idx is removed: `tunnel`, the place of the
\* row a save was started for, follows that row, and is 0 once it is gone.
rows_removed(jobs, idx) ==
    BagOfAll(LAMBDA job : [job EXCEPT !.tunnel = IF @ = idx THEN 0
                                                ELSE IF @ > idx THEN @ - 1
                                                ELSE @],
             jobs)

\* Files of the configs directory: a config without a name, which takes the
\* stem of its file, and one that is named "wg0", in whichever file it is.
AppTexts ==
    { write_config(WireguardConfig(
          [DefaultInterface EXCEPT !.address = Some(<<"ip", "/", "24">>)], <<>>)),
      write_config(WireguardConfig(
          [DefaultInterface EXCEPT !.name = Some(<<"wg0">>)], <<>>)) }

\* The command has done its work and its message waits to be handled.
Sent(job) == [job EXCEPT !.phase = "sent"]

\* The list has room for the tunnels that are on their way to it.
HasRoom(a) ==
    Len(a.tunnels)
      + BagCardinality([job \in {j \in BagToSet(a.jobs) : j.kind # "save"}
                           |-> a.jobs[job]])
      + (IF is_some(a.loaded_configs) THEN Len(a.loaded_configs[1]) ELSE 0)
    < MaxTunnels

\* The configs the loader hands over, by name, and the files they came from:
\* load_existing_configurations over a directory without failing entries
\* (the loop of perform_initial_loading keeps the names).
AppLoadings ==
    UNION {{[files |-> {f \in Stems : is_some(dir[f])},
             loaded_configs |->
                 LET read == load_existing_configurations(
                                 dir, [f \in Stems |-> "none"], order)
                 IN  [i \in 1..Len(read.cfgs) |->
                         ConfigNamed(read.cfgs[i].interface.name)]] :
              order \in ReadDirOrders(dir)} :
           dir \in [Stems -> {None} \cup {Some(t) : t \in AppTexts}]}

\* The interfaces that are up when the application starts.
AppRunning == {{}, {<<"wg0">>}}

\* App after init: no tunnel, nothing selected, the loader still running.
AppCall(loading_, running) ==
    [pc |-> "running", tunnels |-> <<>>, selected_tunnel_idx |-> None,
     init_complete |-> FALSE, loaded_configs |-> Some(loading_.loaded_configs),
     files |-> loading_.files, running |-> running, jobs |-> EmptyBag,
     error |-> None]

AppInit ==
    /\ app \in {AppCall(l, r) : l \in AppLoadings, r \in AppRunning}
    /\ startup = NoCall
    /\ editor = NoCall
    /\ codec = NoCall
    /\ routing = NoCall
    /\ loading = NoCall
    /\ scan = NoCall
    /\ save = NoCall
    /\ NoTunnel

\* The handler of `msg` ran and sent Error(err), or no error.
Handled(a, msg, err) == [a EXCEPT !.error = err]

AppStep(next) ==
    /\ app.pc = "running"
    /\ app' = next
    /\ UNCHANGED <<vars, codec, routing, loading, scan, save, startup, editor>>

\* AppMsg::InitSyncFinished: every loaded config is pushed as saved.
AppInitSyncFinished ==
    /\ app.pc = "running"
    /\ is_some(app.loaded_configs)
    /\ AppStep(Handled(
           [app EXCEPT
               !.loaded_configs = None,
               !.tunnels = @ \o [i \in 1..Len(app.loaded_configs[1]) |->
                                   TunnelData_new(app.loaded_configs[1][i], TRUE,
                                                  app.running)]],
           "InitSyncFinished", None))

\* AppMsg::InitComplete, sent from the idle callback of init.
AppInitComplete ==
    /\ app.pc = "running"
    /\ ~app.init_complete
    /\ AppStep(Handled([app EXCEPT !.init_complete = TRUE], "InitComplete", None))

\* AppMsg::ShowOverview: a row of the list is selected.
AppShowOverview ==
    /\ app.pc = "running"
    /\ \E idx \in 1..Len(app.tunnels) :
          /\ app.selected_tunnel_idx # Some(idx)
          /\ AppStep(Handled([app EXCEPT !.selected_tunnel_idx = Some(idx)],
                             "ShowOverview", None))

\* AppMsg::GenerateConfig: refused while a tunnel is unsaved, else the
\* generation is spawned; it answers AddTunnel with a config without a name.
AppGenerateConfig ==
    /\ app.pc = "running"
    /\ BagCardinality(app.jobs) < MaxJobs
    /\ HasRoom(app)
    /\ AppStep(IF \E i \in 1..Len(app.tunnels) : ~app.tunnels[i].saved
               THEN Handled(app, "GenerateConfig", Some("Please save or delete"))
               ELSE Handled([app EXCEPT !.jobs = @ (+) SetToBag({Job("generate",
                                                 ConfigNamed(None), 0, "sent", 0)})],
                            "GenerateConfig", None))

\* AppMsg::ProcessImportedTunnel, the name already defaulted to the stem of
\* the imported file: refused when <name>.conf exists, else the write is
\* spawned.
AppProcessImportedTunnel ==
    /\ app.pc = "running"
    /\ BagCardinality(app.jobs) < MaxJobs
    /\ HasRoom(app)
    /\ \E name \in AppNames :
          AppStep(IF name \in app.files
                  THEN Handled(app, "ProcessImportedTunnel", Some("already exists"))
                  ELSE Handled([app EXCEPT !.jobs = @ (+) SetToBag({Job("import",
                                              ConfigNamed(Some(name)), 0, "writing", 0)})],
                               "ProcessImportedTunnel", None))

\* The oneshot command of an import: write_config_to_path, then AddTunnel;
\* a failed write answers Error instead.
ImportWrite ==
    /\ app.pc = "running"
    /\ \E job \in BagToSet(app.jobs) : \E written \in BOOLEAN :
          /\ job.kind = "import"
          /\ job.phase = "writing"
          /\ AppStep(IF written
                     THEN Handled([app EXCEPT
                                      !.files = @ \cup {job.config.interface.name[1]},
                                      !.jobs = (@ (-) SetToBag({job}))
                                               (+) SetToBag({Sent(job)})],
                                  "Info", None)
                     ELSE Handled([app EXCEPT !.jobs = @ (-) SetToBag({job})],
                                  "Error", Some("Failed to write config")))

\* AppMsg::AddTunnel: a config whose name a tunnel already has is refused
\* (the message unwraps the name), else it is pushed as unsaved.
AppAddTunnel ==
    /\ app.pc = "running"
    /\ \E job \in BagToSet(app.jobs) :
          /\ job.kind \in {"import", "generate"}
          /\ job.phase = "sent"
          /\ LET config == job.config
                 rest == [app EXCEPT !.jobs = @ (-) SetToBag({job})]
             IN  AppStep(
                   IF \E i \in 1..Len(app.tunnels) :
                         app.tunnels[i].config.interface.name = config.interface.name
                   THEN IF is_none(config.interface.name)
                        THEN Handled([rest EXCEPT !.pc = "panicked"], "AddTunnel", None)
                        ELSE Handled(rest, "AddTunnel", Some("already exists"))
                   ELSE Handled([rest EXCEPT !.tunnels =
                                     Append(@, TunnelData_new(config, FALSE, app.running))],
                                "AddTunnel", None))

\* fs::remove_file(&path) can succeed: the path is not the empty one and a
\* file is there.
can_remove_file(a, idx) ==
    /\ is_some(TunnelData_path(a.tunnels[idx]))
    /\ TunnelData_path(a.tunnels[idx])[1] \in a.files

\* AppMsg::RemoveTunnel: the file of the tunnel is deleted first; when that
\* fails the list is left as it is.
RemoveTunnel(a, idx, deleted) ==
    IF deleted
    THEN Handled([a EXCEPT !.files = @ \ {TunnelData_path(a.tunnels[idx])[1]},
                           !.tunnels = remove(@, idx),
                           !.jobs = rows_removed(@, idx)],
                 "RemoveTunnel", None)
    ELSE Handled(a, "RemoveTunnel", Some("Failed to delete"))

AppRemoveTunnel ==
    /\ app.pc = "running"
    /\ \E idx \in 1..Len(app.tunnels) : \E deleted \in BOOLEAN :
          /\ deleted => can_remove_file(app, idx)
          /\ AppStep(RemoveTunnel(app, idx, deleted))

\* AppMsg::TunnelModified: the selected tunnel becomes unsaved.
AppTunnelModified ==
    /\ app.pc = "running"
    /\ app.init_complete
    /\ is_some(app.selected_tunnel_idx)
    /\ app.selected_tunnel_idx[1] <= Len(app.tunnels)
    /\ AppStep(Handled([app EXCEPT !.tunnels[app.selected_tunnel_idx[1]].saved = FALSE],
                       "TunnelModified", None))

\* AppMsg::NameChanged: ignored before InitComplete and without a selected
\* tunnel; an active tunnel is not renamed, nor to a name that the first
\* tunnel of that name, another one, already has.
NameChanged(a, new_name) ==
    LET idx == a.selected_tunnel_idx[1]
        found == position(a.tunnels, new_name)
    IN  IF ~a.init_complete \/ is_none(a.selected_tunnel_idx)
           \/ idx > Len(a.tunnels)
        THEN Handled(a, "NameChanged", None)
        ELSE IF a.tunnels[idx].active
        THEN Handled(a, "NameChanged", Some("Cannot rename an active tunnel"))
        ELSE IF is_some(found) /\ found[1] # idx
        THEN Handled(a, "NameChanged", Some("already exists"))
        ELSE Handled([a EXCEPT !.tunnels[idx].name = new_name,
                               !.tunnels[idx].config.interface.name = Some(new_name)],
                     "NameChanged", None)

AppNameChanged ==
    /\ app.pc = "running"
    /\ \E new_name \in AppNames : AppStep(NameChanged(app, new_name))

\* AppMsg::SaveConfigFinish with the Save action and the config the editor
\* holds: refused for an active tunnel and for the name "unknown", else the
\* write to the path of the new TunnelData is spawned for the selected index.
SaveConfigFinish(a, config) ==
    LET idx == a.selected_tunnel_idx[1]
    IN  IF is_none(a.selected_tunnel_idx) \/ idx > Len(a.tunnels)
        THEN Handled(a, "SaveConfigFinish", None)
        ELSE IF a.tunnels[idx].active
        THEN Handled(a, "SaveConfigFinish", Some("Tunnel should be disabled"))
        ELSE IF a.tunnels[idx].config.interface.name = Some(Unknown)
        THEN Handled(a, "SaveConfigFinish", Some("cannot be 'unknown'"))
        ELSE Handled([a EXCEPT !.jobs = @ (+) SetToBag({Job("save", config, idx,
                                                            "writing", idx)})],
                     "SaveConfigFinish", None)

\* The editor holds the config of the selected tunnel, under the name typed.
AppSaveConfigFinish ==
    /\ app.pc = "running"
    /\ BagCardinality(app.jobs) < MaxJobs
    /\ \E name \in {Some(n) : n \in AppNames}
                   \cup {app.tunnels[i].config.interface.name :
                            i \in {j \in 1..Len(app.tunnels) :
                                      app.selected_tunnel_idx = Some(j)}} :
          AppStep(SaveConfigFinish(app, ConfigNamed(name)))

\* The oneshot command of a save: write_config_to_path to <name>.conf, then
\* UpdateTunnel; a failed write (the empty path of "unknown" always fails)
\* answers Error instead.
SaveWrite ==
    /\ app.pc = "running"
    /\ \E job \in BagToSet(app.jobs) : \E written \in BOOLEAN :
          LET new_tunnel_data == TunnelData_new(job.config, FALSE, app.running)
              save_path == TunnelData_path(new_tunnel_data)
          IN  /\ job.kind = "save"
              /\ job.phase = "writing"
              /\ written => is_some(save_path)
              /\ AppStep(IF written
                         THEN Handled([app EXCEPT
                                          !.files = @ \cup {save_path[1]},
                                          !.jobs = (@ (-) SetToBag({job}))
                                                   (+) SetToBag({Sent(job)})],
                                      "Info", None)
                         ELSE Handled([app EXCEPT !.jobs = @ (-) SetToBag({job})],
                                      "Error", Some("Failed to write config")))

\* AppMsg::UpdateTunnel with is_save_clicked: the tunnel now at the index
\* takes the name, the config and the active flag of the saved data.
AppUpdateTunnel ==
    /\ app.pc = "running"
    /\ \E job \in BagToSet(app.jobs) :
          /\ job.kind = "save"
          /\ job.phase = "sent"
          /\ LET idx == job.idx
                 new_tunnel_data == TunnelData_new(job.config, FALSE, app.running)
                 rest == [app EXCEPT !.jobs = @ (-) SetToBag({job})]
             IN  AppStep(IF idx <= Len(app.tunnels)
                         THEN Handled([rest EXCEPT !.tunnels[idx] =
                                           update_from(@, new_tunnel_data)],
                                      "UpdateTunnel", None)
                         ELSE Handled(rest, "UpdateTunnel",
                                      Some("Tunnel idx cannot be found")))

AppNext ==
    \/ AppInitSyncFinished
    \/ AppInitComplete
    \/ AppShowOverview
    \/ AppGenerateConfig
    \/ AppProcessImportedTunnel
    \/ ImportWrite
    \/ AppAddTunnel
    \/ AppRemoveTunnel
    \/ AppTunnelModified
    \/ AppNameChanged
    \/ AppSaveConfigFinish
    \/ SaveWrite
    \/ AppUpdateTunnel

SpecApp == AppInit /\ [][AppNext]_<<vars, calls>>

\* The claims about the tunnel list.

AppNamesUnique ==
    \A i \in 1..Len(app.tunnels) : \A j \in 1..Len(app.tunnels) :
        i # j => app.tunnels[i].config.interface.name
                    # app.tunnels[j].config.interface.name

\* C30: after any sequence of InitSyncFinished, AddTunnel,
\* ProcessImportedTunnel, NameChanged, SaveConfigFinish/UpdateTunnel and
\* RemoveTunnel messages no two tunnels of the list have the same interface
\* name.
C30_UniqueNames ==
    app.pc = "running" => AppNamesUnique

\* The UpdateTunnel of a save is handled: a row that changes is the row
\* that was selected when the save was started.
C33_Updated(job) ==
    /\ job.kind = "save"
    /\ job.phase = "sent"
    /\ app'.jobs = app.jobs (-) SetToBag({job})
    => \A i \in 1..Len(app.tunnels) :
          app'.tunnels[i] # app.tunnels[i] => i = job.tunnel

\* C33: when the write started by SaveConfigFinish delivers UpdateTunnel, the
\* tunnel whose name, config and saved flag are updated is the tunnel that
\* was selected when the save was started, whatever was removed, added or
\* selected while the write was running.
C33_SaveUpdatesItsTunnel ==
    [][\A job \in BagToSet(app.jobs) : C33_Updated(job)]_app

\* The write of an import reaches the disk: no file of that name was there.
C34_Written(job) ==
    /\ job.kind = "import"
    /\ job.phase = "writing"
    /\ app'.jobs = (app.jobs (-) SetToBag({job})) (+) SetToBag({Sent(job)})
    => job.config.interface.name[1] \notin app.files

\* C34: importing never overwrites an existing config file, also when two
\* imports of configs with the same name are processed before the write of
\* the first one has finished.
C34_ImportKeepsFiles ==
    [][\A job \in BagToSet(app.jobs) : C34_Written(job)]_app

\* C35: whenever a tunnel of the list has saved = true, the file <name>.conf
\* of its config exists in the configs directory: after the initial
\* loading, after Save, and after any edit or rename.
C35_SavedHasFile ==
    \A i \in 1..Len(app.tunnels) :
        app.tunnels[i].saved =>
            /\ is_some(TunnelData_path(app.tunnels[i]))
            /\ TunnelData_path(app.tunnels[i])[1] \in app.files

\* RemoveTunnel can take the tunnel at idx out of the list.
C36_Removable(idx) ==
    \E deleted \in BOOLEAN :
        /\ deleted => can_remove_file(app, idx)
        /\ Len(RemoveTunnel(app, idx, deleted).tunnels) < Len(app.tunnels)

\* C36: RemoveTunnel removes a tunnel only after its file was deleted and
\* leaves the list unchanged when the deletion fails; still, an unsaved
\* tunnel that has no file on disk can be removed, so that a refused
\* GenerateConfig becomes accepted by deleting that tunnel.
C36_UnsavedRemovable ==
    app.pc = "running" =>
        \A idx \in 1..Len(app.tunnels) :
            /\ \A deleted \in BOOLEAN :
                   ~deleted => RemoveTunnel(app, idx, deleted).tunnels = app.tunnels
            /\ ~app.tunnels[idx].saved /\ ~can_remove_file(app, idx)
               => C36_Removable(idx)

\* ------------------------------------------------- the start of App (main.rs)
\* App::init spawns perform_initial_loading, whose InitSyncFinished arrives
\* when the loading is over, and registers an idle callback that sends
\* InitComplete.  The messages are handled in the order they were sent.

\* The errors perform_initial_loading collects: of the script scan, of the
\* load of the configs, of a validation, of the write that repairs a config.
InitialErrors == {"script", "load", "validate", "write"}

NoErrors == <<>>

StartupCall(initial_errors) ==
    [idle |-> FALSE, loaded |-> FALSE, initial_errors |-> initial_errors,
     inbox |-> <<>>, init_complete |-> FALSE, init_err_buffer |-> <<>>,
     shown |-> <<>>]

StartupInit ==
    /\ startup \in {StartupCall(e) : e \in SeqsUpTo(InitialErrors, MaxErrors)}
    /\ codec = NoCall
    /\ routing = NoCall
    /\ loading = NoCall
    /\ scan = NoCall
    /\ save = NoCall
    /\ app = NoCall
    /\ editor = NoCall
    /\ NoTunnel

StartupStep(next) ==
    /\ startup' = next
    /\ UNCHANGED <<vars, codec, routing, loading, scan, save, app, editor>>

\* The oneshot command of init: sender.input(perform_initial_loading()).
LoadingFinished ==
    /\ ~startup.loaded
    /\ StartupStep([startup EXCEPT !.loaded = TRUE,
                                   !.inbox = Append(@, [msg |-> "InitSyncFinished"])])

\* The idle callback of init: sender.input(AppMsg::InitComplete).
IdleCallback ==
    /\ ~startup.idle
    /\ StartupStep([startup EXCEPT !.idle = TRUE,
                                   !.inbox = Append(@, [msg |-> "InitComplete"])])

\* AppMsg::InitSyncFinished: one AddInitErrors is sent for each error.
InitSyncFinished_errors(s) ==
    [s EXCEPT !.inbox = @ \o [i \in 1..Len(s.initial_errors) |->
                                 [msg |-> "AddInitErrors", err |-> s.initial_errors[i]]]]

\* AppMsg::AddInitErrors.
AddInitErrors(s, err) ==
    [s EXCEPT !.init_err_buffer = Append(@, err)]

\* AppMsg::InitComplete: the buffer, when it holds errors, is shown as one
\* numbered message and cleared.
InitComplete(s) ==
    IF s.init_err_buffer # <<>>
    THEN [s EXCEPT !.init_complete = TRUE, !.init_err_buffer = <<>>,
                   !.shown = @ \o s.init_err_buffer]
    ELSE [s EXCEPT !.init_complete = TRUE]

\* App::update takes the first message of the channel.
StartupHandle ==
    /\ startup.inbox # <<>>
    /\ LET message == Head(startup.inbox)
           rest == [startup EXCEPT !.inbox = Tail(@)]
       IN  StartupStep(CASE message.msg = "InitSyncFinished" -> InitSyncFinished_errors(rest)
                         [] message.msg = "AddInitErrors" -> AddInitErrors(rest, message.err)
                         [] message.msg = "InitComplete" -> InitComplete(rest))

StartupNext == LoadingFinished \/ IdleCallback \/ StartupHandle

SpecStartup == StartupInit /\ [][StartupNext]_<<vars, calls>>

\* The loader ends, the idle callback runs, and every message is handled.
FairSpecStartup ==
    /\ SpecStartup
    /\ WF_<<vars, calls>>(LoadingFinished)
    /\ WF_<<vars, calls>>(IdleCallback)
    /\ WF_<<vars, calls>>(StartupHandle)

\* C32: every error collected during the initial loading is eventually shown
\* to the user exactly once, in whichever order InitComplete and the
\* loader's messages are handled, and none stays in init_err_buffer.
C32_ErrorsShown ==
    <>[](startup.shown = startup.initial_errors /\ startup.init_err_buffer = <<>>)

\* ----------------------------------------- an imported config (main.rs)
\* The import dialog parses the chosen file and sends the config with the
\* path of the file; ProcessImportedTunnel resets its routing state, names
\* it after the file when it has no name, writes it to the configs directory
\* and adds it to the list.

\* Files chosen for import: configs as write_config leaves them, with and
\* without a name, with the routing state of a config that was in use.
ImportedRoutedInterfaces ==
    {[DefaultInterface EXCEPT !.name = name,
                              !.address = Some(<<"ip", "/", "24">>),
                              !.private_key = Some(<<"priv">>),
                              !.routing_script_name = r.routing_script_name,
                              !.pre_up = r.pre_up,
                              !.post_down = post_down,
                              !.fwmark = fwmark,
                              !.binding_iface = r.binding_iface,
                              !.has_script_bind_iface = is_some(r.binding_iface)] :
        name \in {None} \cup {Some(f) : f \in Stems}, r \in LoadingRouting,
        post_down \in SomeOrNone(PlainDirective), fwmark \in SomeOrNone(<<"51820">>)}

ImportedRoutedTexts ==
    {write_config(WireguardConfig(i, <<[DefaultPeer EXCEPT !.public_key = Some(<<"K">>)]>>)) :
        i \in ImportedRoutedInterfaces}

ImportedRoutedInit ==
    /\ codec \in
          {[pc |-> "text", from |-> "import", c |-> DefaultConfig, text |-> text,
            parsed |-> NoParse, again |-> Empty] : text \in ImportedRoutedTexts}
    /\ routing = NoCall
    /\ loading = NoCall
    /\ scan = NoCall
    /\ save = NoCall
    /\ app = NoCall
    /\ startup = NoCall
    /\ editor = NoCall
    /\ NoTunnel

\* ProcessImportedTunnel up to the write: the hooks are reset and a config
\* without a name takes the stem of the imported file.
imported_config(config, file_stem) ==
    LET reset == reset_interface_hooks(config)
    IN  IF is_none(reset.interface.name)
        THEN [reset EXCEPT !.interface.name = Some(file_stem)]
        ELSE reset

\* AppMsg::ProcessImportedTunnel for the config parsed: `c` is the config
\* sent on with AddTunnel, `again` the text written to <name>.conf.
ProcessImportedTunnel ==
    /\ codec.pc = "parsed"
    /\ codec.from = "import"
    /\ codec.parsed.ok
    /\ \E file_stem \in Stems :
          LET config == imported_config(codec.parsed.cfg, file_stem)
          IN  codec' = [codec EXCEPT !.pc = "imported", !.c = config,
                                     !.again = write_config(config)]
    /\ UNCHANGED <<vars, routing, loading, scan, save, app, startup, editor>>

ImportedNext == ParseConfig \/ ProcessImportedTunnel

SpecImported == ImportedRoutedInit /\ [][ImportedNext]_<<vars, calls>>

\* The config has no routing state.
C37_NoRouting(interface) ==
    /\ \A f \in RoutingFields : is_none(interface[f])
    /\ ~interface.has_script_bind_iface

EditorConfigs ==
    [c \in 1..2 |->
        [private_key |-> Some(<<"priv", c>>), public_key |-> Some(<<"pub", "priv", c>>)]]

\* The private keys typed: two that `wg pubkey` accepts and one it does not.
TypedKeys == {<<"priv">>, <<"priv2">>, <<"bad">>}

\* OverviewModel after launch(WireguardConfig::default()); `shown` is the
\* config of the last ShowConfig (0: none) and `typed` the last private key
\* typed into it.
EditorCall ==
    [interface |-> [private_key |-> None, public_key |-> None],
     shown |-> 0, typed |-> None, commands |-> EmptyBag, error |-> None]

EditorInit ==
    /\ editor = EditorCall
    /\ codec = NoCall
    /\ routing = NoCall
    /\ loading = NoCall
    /\ scan = NoCall
    /\ save = NoCall
    /\ app = NoCall
    /\ startup = NoCall
    /\ NoTunnel

EditorStep(next) ==
    /\ editor' = next
    /\ UNCHANGED <<vars, codec, routing, loading, scan, save, app, startup>>

\* OverviewInput::ShowConfig: the interface of the config replaces the one
\* shown.
ShowConfig ==
    \E c \in DOMAIN EditorConfigs :
        /\ editor.shown # c
        /\ EditorStep([editor EXCEPT !.interface = EditorConfigs[c], !.shown = c,
                                     !.typed = None, !.error = None])

\* OverviewInput::SetInterface(PrivateKey, Some(private_key)), for a key
\* typed into a config that is shown: the derivation is spawned; the
\* interface is not touched.
SetInterfacePrivateKey ==
    /\ editor.shown # 0
    /\ BagCardinality(editor.commands) < MaxDerivations
    /\ \E private_key \in TypedKeys :
          EditorStep([editor EXCEPT
                         !.typed = Some(private_key),
                         !.error = None,
                         !.commands = @ (+) SetToBag({[private_key |-> private_key,
                                                      shown |-> editor.shown]})])

\* OverviewInput::SetGeneratedKeys.
SetGeneratedKeys(interface, pub_key, priv_key) ==
    [interface EXCEPT !.public_key = pub_key, !.private_key = priv_key]

\* A derivation ends: its SetGeneratedKeys is handled, or the Error it emits
\* when generate_public_key fails.
DerivationEnds ==
    \E command \in BagToSet(editor.commands) :
        LET public_key == generate_public_key(command.private_key)
            rest == [editor EXCEPT !.commands = @ (-) SetToBag({command})]
        IN  EditorStep(IF public_key.ok
                       THEN [rest EXCEPT
                                !.interface = SetGeneratedKeys(@, Some(public_key.val),
                                                               Some(command.private_key)),
                                !.error = None]
                       ELSE [rest EXCEPT !.error = Some("Failed to generate public key")])

EditorNext == ShowConfig \/ SetInterfacePrivateKey \/ DerivationEnds

SpecEditor == EditorInit /\ [][EditorNext]_<<vars, calls>>

\* The result of a derivation is applied: it was typed for the config now
\* shown and is the last key typed.
C38_Applied(command) ==
    /\ editor'.commands = editor.commands (-) SetToBag({command})
    /\ generate_public_key(command.private_key).ok
    => /\ command.shown = editor.shown
       /\ Some(command.private_key) = editor.typed

\* C38: the keys derived from a private key typed for one config are applied
\* to that config: a late SetGeneratedKeys does not overwrite the keys of a
\* config shown since, nor the keys of a later edit.
C38_KeysOfShownConfig ==
    [][\A command \in BagToSet(editor.commands) : C38_Applied(command)]_editor

=============================================================================
